---------------------------- MODULE Spec2Model ----------------------------
(***************************************************************************)
(* Contract cache layer of Remitwise-Frontend (lib/cache/contract-cache.ts) *)
(* as a state machine: the LRU store, the hit/miss counters, the clock and  *)
(* the cachedContractCall invocations suspended at their fetch.             *)
(*                                                                         *)
(* Strings are sequences of one-character strings, so that key derivation, *)
(* the regular-expression checks and String.includes are computed, not     *)
(* assumed.                                                                *)
(***************************************************************************)
EXTENDS Integers, Sequences, FiniteSets, Bags, TLC

(***************************************************************************)
(* Bounds of the model                                                     *)
(***************************************************************************)
\* Number of cachedContractCall invocations that can be in flight at once.
MaxCalls == 2
\* The clock advances in steps of TickMs milliseconds, MaxTicks times.
MaxTicks == 2
\* Cap on each of the two metric counters.
MaxCount == 2
\* Capacity of the LRU store.  The source sets 500 (contract-cache.ts:82);
\* the model keeps the same code path with a capacity that three keys exceed.
CACHE_MAX_SIZE == 2
\* Nonces generated.
MaxNonces == 2
\* Milliseconds past a multiple of the lifetime of a nonce that the clock can
\* reach.
MaxLate == 1

(***************************************************************************)
(* Configuration and constants (contract-cache.ts:82-108)                  *)
(***************************************************************************)
MAX_KEY_LENGTH == 1024
MAX_ARGS_SIZE == 10240
MIN_TTL == 1
MAX_TTL == 3600
TickMs == 1000

REMITTANCE_SPLIT ==
    <<"R", "E", "M", "I", "T", "T", "A", "N", "C", "E", "_", "S", "P", "L",
      "I", "T", "_", "C", "O", "N", "T", "R", "A", "C", "T">>
SAVINGS_GOALS ==
    <<"S", "A", "V", "I", "N", "G", "S", "_", "G", "O", "A", "L", "S", "_",
      "C", "O", "N", "T", "R", "A", "C", "T">>
BILL_PAYMENTS ==
    <<"B", "I", "L", "L", "_", "P", "A", "Y", "M", "E", "N", "T", "S", "_",
      "C", "O", "N", "T", "R", "A", "C", "T">>
INSURANCE ==
    <<"I", "N", "S", "U", "R", "A", "N", "C", "E", "_", "C", "O", "N", "T",
      "R", "A", "C", "T">>

VALID_CONTRACT_IDS ==
    {REMITTANCE_SPLIT, SAVINGS_GOALS, BILL_PAYMENTS, INSURANCE}

(***************************************************************************)
(* Characters                                                              *)
(***************************************************************************)
UpperCase ==
    <<"A", "B", "C", "D", "E", "F", "G", "H", "I", "J", "K", "L", "M", "N",
      "O", "P", "Q", "R", "S", "T", "U", "V", "W", "X", "Y", "Z">>
LowerCase ==
    <<"a", "b", "c", "d", "e", "f", "g", "h", "i", "j", "k", "l", "m", "n",
      "o", "p", "q", "r", "s", "t", "u", "v", "w", "x", "y", "z">>
Digits ==
    <<"0", "1", "2", "3", "4", "5", "6", "7", "8", "9">>
\* The characters the model uses, in increasing UTF-16 code unit order.
CodeUnits ==
    <<" ", "!", "\"", ",", "-", "0", "1", "2", "3", "4", "5", "6", "7", "8",
      "9", ":", "<", ">", "A", "B", "C", "D", "E", "F", "G", "H", "I", "J",
      "K", "L", "M", "N", "O", "P", "Q", "R", "S", "T", "U", "V", "W", "X",
      "Y", "Z", "[", "\\", "]", "_", "a", "b", "c", "d", "e", "f", "g", "h",
      "i", "j", "k", "l", "m", "n", "o", "p", "q", "r", "s", "t", "u", "v",
      "w", "x", "y", "z", "{", "}">>

Range(s) == {s[i] : i \in DOMAIN s}

Code(ch) == CHOOSE i \in DOMAIN CodeUnits : CodeUnits[i] = ch

\* [a-zA-Z_]
MethodHead == Range(UpperCase) \cup Range(LowerCase) \cup {"_"}
\* [a-zA-Z0-9_]
MethodTail == MethodHead \cup Range(Digits)
\* [a-zA-Z0-9_:{}",\s-]
PatternChars == MethodTail \cup {":", "{", "}", "\"", ",", " ", "-"}

(***************************************************************************)
(* Outcomes of the validation functions: a CacheErrorCode, or OK when the  *)
(* function returns without throwing.                                      *)
(***************************************************************************)
OK == "OK"
INVALID_INPUT == "INVALID_INPUT"
SERIALIZATION_ERROR == "SERIALIZATION_ERROR"
INVALID_TTL == "INVALID_TTL"
INVALID_CONTRACT_ID == "INVALID_CONTRACT_ID"

(***************************************************************************)
(* Validation functions                                                    *)
(***************************************************************************)
\* Variant: only the emptiness of the contract id is checked.
validateContractId_NonEmpty(contractId) ==
    IF Len(contractId) = 0 THEN INVALID_CONTRACT_ID ELSE OK

validateContractId(contractId) ==
    IF Len(contractId) = 0 THEN INVALID_CONTRACT_ID
    ELSE IF contractId \notin VALID_CONTRACT_IDS THEN INVALID_CONTRACT_ID
    ELSE OK

validateMethod(method) ==
    IF Len(method) = 0 THEN INVALID_INPUT
    ELSE IF ~(/\ method[1] \in MethodHead
              /\ \A i \in 2..Len(method) : method[i] \in MethodTail)
         THEN INVALID_INPUT
    ELSE OK

\* Variant: the two ends of the range are rejected.
validateTTL_Exclusive(ttlSeconds) ==
    IF ~ttlSeconds.finite THEN INVALID_TTL
    ELSE IF ttlSeconds.n <= MIN_TTL \/ ttlSeconds.n >= MAX_TTL THEN INVALID_TTL
    ELSE OK

\* A TTL argument is [finite |-> BOOLEAN, n |-> Int]: NaN and the
\* infinities are the values with finite = FALSE.
validateTTL(ttlSeconds) ==
    IF ~ttlSeconds.finite THEN INVALID_TTL
    ELSE IF ttlSeconds.n < MIN_TTL \/ ttlSeconds.n > MAX_TTL THEN INVALID_TTL
    ELSE OK

(***************************************************************************)
(* JSON.stringify on the argument values the model uses.  An args value is *)
(* [t |-> "object" | "null" | "array" | "string" | "circular", props],     *)
(* props the own properties in insertion order, each [k, v] with v a       *)
(* string [t |-> "str", s], a non-negative integer [t |-> "num", n], null, *)
(* NaN or undefined ([t |-> "null" | "nan" | "undefined"]), or the string  *)
(* s.repeat(n) of a one-character s ([t |-> "repeat", s, n]).              *)
(***************************************************************************)
RECURSIVE NatToString(_)
NatToString(n) ==
    IF n < 10 THEN <<Digits[n + 1]>>
    ELSE NatToString(n \div 10) \o <<Digits[(n % 10) + 1]>>

\* Each quote and backslash of s preceded by a backslash; s is split in
\* halves so that long strings are handled at a small depth.
RECURSIVE Escape(_)
Escape(s) ==
    IF Len(s) = 0 THEN <<>>
    ELSE IF Len(s) = 1
    THEN (IF s[1] \in {"\"", "\\"} THEN <<"\\", s[1]>> ELSE <<s[1]>>)
    ELSE LET half == Len(s) \div 2
         IN  Escape(SubSeq(s, 1, half)) \o Escape(SubSeq(s, half + 1, Len(s)))

Quote(s) == <<"\"">> \o Escape(s) \o <<"\"">>

\* A finite number prints its digits; NaN and the infinities print as null.
StringifyValue(v) ==
    IF v.t = "num" THEN NatToString(v.n)
    ELSE IF v.t = "repeat" THEN Quote([i \in 1..v.n |-> v.s[1]])
    ELSE IF v.t \in {"null", "nan"} THEN <<"n", "u", "l", "l">>
    ELSE Quote(v.s)

RECURSIVE StringifyProps(_)
StringifyProps(props) ==
    IF props = <<>> THEN <<>>
    ELSE Quote(Head(props).k) \o <<":">> \o StringifyValue(Head(props).v)
         \o (IF Tail(props) = <<>> THEN <<>> ELSE <<",">>)
         \o StringifyProps(Tail(props))

\* A property whose value is undefined is left out.
JSONstringify(props) ==
    <<"{">>
    \o StringifyProps(SelectSeq(props, LAMBDA p : p.v.t # "undefined"))
    \o <<"}">>

validateArgs(args) ==
    IF args.t \notin {"object", "circular"} THEN INVALID_INPUT
    ELSE IF args.t = "circular" THEN SERIALIZATION_ERROR
    ELSE IF Len(JSONstringify(args.props)) > MAX_ARGS_SIZE THEN INVALID_INPUT
    ELSE OK

(***************************************************************************)
(* Key derivation                                                          *)
(***************************************************************************)
\* a < b in the order Array.prototype.sort uses by default.
RECURSIVE StrLess(_, _)
StrLess(a, b) ==
    IF b = <<>> THEN FALSE
    ELSE IF a = <<>> THEN TRUE
    ELSE IF Head(a) # Head(b) THEN Code(Head(a)) < Code(Head(b))
    ELSE StrLess(Tail(a), Tail(b))

RECURSIVE InsertSorted(_, _)
InsertSorted(p, sorted) ==
    IF sorted = <<>> THEN <<p>>
    ELSE IF StrLess(p.k, Head(sorted).k) THEN <<p>> \o sorted
    ELSE <<Head(sorted)>> \o InsertSorted(p, Tail(sorted))

\* Variant: the properties are left in the order of the caller.
sortedArgs_Unsorted(props) == props

\* Object.keys(args).sort().reduce(...): the properties ordered by key.
RECURSIVE sortedArgs(_)
sortedArgs(props) ==
    IF props = <<>> THEN <<>>
    ELSE InsertSorted(props[Len(props)], sortedArgs(SubSeq(props, 1, Len(props) - 1)))

FirstError(errs) ==
    IF \A i \in DOMAIN errs : errs[i] = OK THEN OK
    ELSE errs[CHOOSE i \in DOMAIN errs :
                 errs[i] # OK /\ \A j \in 1..(i - 1) : errs[j] = OK]

\* [err, key]: err is OK and key the derived key, or err is the code thrown.
generateCacheKey(contractId, method, args) ==
    LET v == FirstError(<<validateContractId(contractId),
                          validateMethod(method),
                          validateArgs(args)>>)
    IN  IF v # OK THEN [err |-> v, key |-> <<>>]
        ELSE LET argsHash == JSONstringify(sortedArgs(args.props))
                 key == contractId \o <<":">> \o method \o <<":">> \o argsHash
             IN  IF Len(key) > MAX_KEY_LENGTH
                 THEN [err |-> INVALID_INPUT, key |-> <<>>]
                 ELSE [err |-> OK, key |-> key]


(***************************************************************************)
(* The bounded LRU map behind `cache` (lru-cache: new LRUCache(max)).  The *)
(* store is the list of [key, value] items, most recently used first.      *)
(***************************************************************************)
LRU_has(items, key) == \E i \in DOMAIN items : items[i].key = key

LRU_peek(items, key) ==
    items[CHOOSE i \in DOMAIN items : items[i].key = key].value

LRU_del(items, key) == SelectSeq(items, LAMBDA it : it.key # key)

\* get: a found item becomes the most recently used one.
LRU_get(items, key) ==
    IF LRU_has(items, key)
    THEN <<[key |-> key, value |-> LRU_peek(items, key)]>> \o LRU_del(items, key)
    ELSE items

\* Variant: set on a store without a capacity.
LRU_set_Unbounded(items, key, value) ==
    <<[key |-> key, value |-> value]>> \o LRU_del(items, key)

\* set: the item becomes the most recently used one; a new key beyond the
\* capacity drops items from the least recently used end.
LRU_set(items, key, value) ==
    LET added == <<[key |-> key, value |-> value]>> \o LRU_del(items, key)
    IN  IF Len(added) > CACHE_MAX_SIZE THEN SubSeq(added, 1, CACHE_MAX_SIZE)
        ELSE added

LRU_keys(items) == [i \in DOMAIN items |-> items[i].key]

LRU_reset == <<>>

\* Variant: String.prototype.startsWith
Includes_StartsWith(s, p) ==
    Len(p) <= Len(s) /\ SubSeq(s, 1, Len(p)) = p

\* String.prototype.includes
Includes(s, p) ==
    \E i \in 0..(Len(s) - Len(p)) : SubSeq(s, i + 1, i + Len(p)) = p

(***************************************************************************)
(* Inputs                                                                  *)
(***************************************************************************)
getPolicy == <<"g", "e", "t", "P", "o", "l", "i", "c", "y">>
getSplit == <<"g", "e", "t", "S", "p", "l", "i", "t">>
BadMethod == <<"g", "e", "t", "-", "p", "o", "l", "i", "c", "y", "!">>
UnknownContract ==
    <<"I", "N", "V", "A", "L", "I", "D", "_", "C", "O", "N", "T", "R", "A",
      "C", "T">>

Str(s) == [t |-> "str", s |-> s, n |-> 0]
Num(n) == [t |-> "num", s |-> <<>>, n |-> n]
Repeat(ch, n) == [t |-> "repeat", s |-> <<ch>>, n |-> n]
Null == [t |-> "null", s |-> <<>>, n |-> 0]
NotANumber == [t |-> "nan", s |-> <<>>, n |-> 0]
Undefined == [t |-> "undefined", s |-> <<>>, n |-> 0]
Obj(props) == [t |-> "object", props |-> props]
NotObj(t) == [t |-> t, props |-> <<>>]
Call(contractId, method, args) ==
    [contractId |-> contractId, method |-> method, args |-> args]

\* Call descriptors that pass validation: three distinct keys, two of them
\* under the same contract and method.
ValidCalls ==
    { Call(INSURANCE, getPolicy, Obj(<<[k |-> <<"i", "d">>, v |-> Str(<<"1">>)]>>)),
      Call(INSURANCE, getPolicy, Obj(<<[k |-> <<"i", "d">>, v |-> Str(<<"2">>)]>>)),
      Call(REMITTANCE_SPLIT, getSplit, Obj(<<>>)) }

\* { data: 'x'.repeat(n - 11) }: an args object that serializes to n
\* characters.
ArgsOfSize(n) ==
    Obj(<<[k |-> <<"d", "a", "t", "a">>, v |-> Repeat("x", n - 11)]>>)

\* Valid contract id, method and args whose key is longer than MAX_KEY_LENGTH.
LongKeyCall == Call(INSURANCE, getPolicy, ArgsOfSize(MAX_KEY_LENGTH))

\* Args that serialize to exactly MAX_ARGS_SIZE characters, and to one more.
ArgsAtLimit == Call(INSURANCE, getPolicy, ArgsOfSize(MAX_ARGS_SIZE))
ArgsOverLimit == Call(INSURANCE, getPolicy, ArgsOfSize(MAX_ARGS_SIZE + 1))

\* Call descriptors that fail one validation each.
InvalidCalls ==
    { Call(UnknownContract, getPolicy, Obj(<<>>)),
      Call(<<>>, getPolicy, Obj(<<>>)),
      Call(INSURANCE, BadMethod, Obj(<<>>)),
      Call(INSURANCE, <<>>, Obj(<<>>)),
      Call(INSURANCE, getPolicy, NotObj("null")),
      Call(INSURANCE, getPolicy, NotObj("array")),
      Call(INSURANCE, getPolicy, NotObj("circular")),
      LongKeyCall, ArgsAtLimit, ArgsOverLimit }

\* Call descriptors with a contract id that is empty or unknown, the method
\* and the args valid or not.
BadContractCalls ==
    { Call(c, m, a) : c \in {UnknownContract, <<>>},
                      m \in {getPolicy, BadMethod},
                      a \in {Obj(<<>>), NotObj("null")} }

\* Call descriptors whose args differ in the order of the properties, or in
\* a value that JSON has no notation of its own for.
KeyCallList ==
    << Call(INSURANCE, getPolicy,
            Obj(<<[k |-> <<"a">>, v |-> Num(1)], [k |-> <<"b">>, v |-> Num(2)]>>)),
       Call(INSURANCE, getPolicy,
            Obj(<<[k |-> <<"b">>, v |-> Num(2)], [k |-> <<"a">>, v |-> Num(1)]>>)),
       Call(INSURANCE, getPolicy, Obj(<<[k |-> <<"a">>, v |-> Null]>>)),
       Call(INSURANCE, getPolicy, Obj(<<[k |-> <<"a">>, v |-> NotANumber]>>)),
       Call(INSURANCE, getPolicy, Obj(<<>>)),
       Call(INSURANCE, getPolicy, Obj(<<[k |-> <<"a">>, v |-> Undefined]>>)) >>

KeyCalls == Range(KeyCallList)

\* What the fetch function passed along with each of these descriptors
\* resolves to: the result of the contract read for its arguments.
FetchResults == <<"r1", "r2", "r3", "r4", "r5", "r6">>

DataOf(contractId, method, args) ==
    FetchResults[CHOOSE i \in DOMAIN KeyCallList :
                    KeyCallList[i] = Call(contractId, method, args)]

(***************************************************************************)
(* The cached wrappers of the remittance-split and insurance contracts:    *)
(* their arguments and the calls they pass to cachedContractCall           *)
(***************************************************************************)
getConfig == <<"g", "e", "t", "C", "o", "n", "f", "i", "g">>
calculateSplit ==
    <<"c", "a", "l", "c", "u", "l", "a", "t", "e", "S", "p", "l", "i", "t">>
getActivePolicies ==
    <<"g", "e", "t", "A", "c", "t", "i", "v", "e", "P", "o", "l", "i", "c",
      "i", "e", "s">>
getTotalMonthlyPremium ==
    <<"g", "e", "t", "T", "o", "t", "a", "l", "M", "o", "n", "t", "h", "l",
      "y", "P", "r", "e", "m", "i", "u", "m">>

\* TTL configurations, in seconds.
CACHE_TTL ==
    [getSplit |-> 60, getConfig |-> 60, getActivePolicies |-> 45,
     getTotalMonthlyPremium |-> 45, getPolicy |-> 45]

Wrappers ==
    {"getSplit", "getConfig", "calculateSplit", "getPolicy",
     "getActivePolicies", "getTotalMonthlyPremium"}

\* Numbers that are not integers, and the infinite ones.
Fraction == [t |-> "fraction", s |-> <<>>, n |-> 0]
Infinity == [t |-> "infinity", s |-> <<>>, n |-> 0]

testnet == Str(<<"t", "e", "s", "t", "n", "e", "t">>)
mainnet == Str(<<"m", "a", "i", "n", "n", "e", "t">>)
\* 'G' followed by 55 characters of [A-Z0-9], and the same under 'X'.
GAddress == Str([i \in 1..56 |-> IF i = 1 THEN "G" ELSE "A"])
XAddress == Str([i \in 1..56 |-> IF i = 1 THEN "X" ELSE "A"])

\* env !== 'testnet' && env !== 'mainnet'
validateEnv(env) ==
    IF env # testnet /\ env # mainnet THEN "Invalid environment" ELSE "none"

\* The checks of calculateSplit on its amount.
validateAmount(amount) ==
    IF amount.t \notin {"num", "fraction"} THEN "Invalid amount: finite"
    ELSE IF amount.t = "num" /\ amount.n < 0
    THEN "Invalid amount: non-negative"
    ELSE IF amount.t # "num" THEN "Invalid amount: integer"
    ELSE "none"

validatePolicyId(id) ==
    IF id.t # "str" \/ Len(id.s) = 0
    THEN "Policy ID must be a non-empty string"
    ELSE IF \E i \in DOMAIN id.s :
              id.s[i] \notin MethodTail \cup {"-"}
    THEN "Policy ID contains invalid characters"
    ELSE IF Len(id.s) > 128
    THEN "Policy ID exceeds maximum length of 128 characters"
    ELSE "none"

validateStellarAddress(address) ==
    IF address.t # "str" \/ Len(address.s) = 0
    THEN "owner must be a non-empty string"
    ELSE IF ~( /\ Len(address.s) = 56
               /\ address.s[1] = "G"
               /\ \A i \in 2..56 : address.s[i] \in Range(UpperCase) \cup Range(Digits) )
    THEN "owner must be a valid Stellar address"
    ELSE "none"

\* The first message among the checks that failed, in order.
FirstMessage(messages) ==
    IF \A i \in DOMAIN messages : messages[i] = "none" THEN "none"
    ELSE messages[CHOOSE i \in DOMAIN messages :
                    /\ messages[i] # "none"
                    /\ \A j \in 1..(i - 1) : messages[j] = "none"]

\* The validation a wrapper runs on its arguments x before its try block.
WrapperInputError(w, x) ==
    CASE w \in {"getSplit", "getConfig"} -> validateEnv(x[1])
      [] w = "calculateSplit" ->
            FirstMessage(<<validateAmount(x[1]), validateEnv(x[2])>>)
      [] w = "getPolicy" -> validatePolicyId(x[1])
      [] OTHER -> validateStellarAddress(x[1])

Prop(k, v) == [k |-> k, v |-> v]

\* The contract id, method and args a wrapper passes to cachedContractCall.
WrapperCall(w, x) ==
    CASE w = "getSplit" ->
            Call(REMITTANCE_SPLIT, getSplit, Obj(<<Prop(<<"e", "n", "v">>, x[1])>>))
      [] w = "getConfig" ->
            Call(REMITTANCE_SPLIT, getConfig, Obj(<<Prop(<<"e", "n", "v">>, x[1])>>))
      [] w = "calculateSplit" ->
            Call(REMITTANCE_SPLIT, calculateSplit,
                 Obj(<<Prop(<<"a", "m", "o", "u", "n", "t">>, x[1]),
                       Prop(<<"e", "n", "v">>, x[2])>>))
      [] w = "getPolicy" ->
            Call(INSURANCE, getPolicy, Obj(<<Prop(<<"i", "d">>, x[1])>>))
      [] w = "getActivePolicies" ->
            Call(INSURANCE, getActivePolicies,
                 Obj(<<Prop(<<"o", "w", "n", "e", "r">>, x[1])>>))
      [] OTHER ->
            Call(INSURANCE, getTotalMonthlyPremium,
                 Obj(<<Prop(<<"o", "w", "n", "e", "r">>, x[1])>>))

\* The TTL a wrapper passes: calculateSplit uses the TTL of getSplit.
WrapperTtl(w) ==
    CASE w \in {"getSplit", "calculateSplit"} -> CACHE_TTL.getSplit
      [] w = "getConfig" -> CACHE_TTL.getConfig
      [] w = "getPolicy" -> CACHE_TTL.getPolicy
      [] w = "getActivePolicies" -> CACHE_TTL.getActivePolicies
      [] OTHER -> CACHE_TTL.getTotalMonthlyPremium

\* The wrapper that passes this method.
WrapperOf(method) ==
    CASE method = getSplit -> "getSplit"
      [] method = getConfig -> "getConfig"
      [] method = calculateSplit -> "calculateSplit"
      [] method = getPolicy -> "getPolicy"
      [] method = getActivePolicies -> "getActivePolicies"
      [] OTHER -> "getTotalMonthlyPremium"

\* Arguments of the wrappers: the ones of the tests, valid and not.
WrapperInputs(w) ==
    CASE w \in {"getSplit", "getConfig"} ->
            {<<testnet>>, <<Str(<<"i", "n", "v", "a", "l", "i", "d">>)>>}
      [] w = "calculateSplit" ->
            {<<a, testnet>> :
                a \in {Num(1000), Num(-100), NotANumber, Infinity, Fraction,
                       Str(<<"1", "0", "0", "0">>)}}
            \cup {<<Num(1000), Str(<<"i", "n", "v", "a", "l", "i", "d">>)>>}
      [] w = "getPolicy" ->
            {<<Str(<<"1">>)>>, <<Str(<<>>)>>,
             <<Str(<<"i", "d", "<", "s", "c", "r", "i", "p", "t", ">">>)>>,
             <<Str([i \in 1..129 |-> "x"])>>}
      [] OTHER ->
            {<<GAddress>>, <<XAddress>>, <<Str(<<>>)>>,
             <<Str(<<"i", "n", "v", "a", "l", "i", "d">>)>>}

\* The calls the wrappers make on arguments that pass their validation.
WrapperCalls ==
    UNION {{WrapperCall(w, x) :
                x \in {y \in WrapperInputs(w) : WrapperInputError(w, y) = "none"}} :
           w \in Wrappers}

CallInputs ==
    ValidCalls \cup InvalidCalls \cup BadContractCalls \cup KeyCalls
    \cup WrapperCalls

Ttl(n) == [finite |-> TRUE, n |-> n]
NaN == [finite |-> FALSE, n |-> 0]
\* TTL arguments out of the range, and TTL arguments in it.
InvalidTtls == {Ttl(-1), Ttl(0), Ttl(MAX_TTL + 1), NaN}
TtlInputs == InvalidTtls \cup {Ttl(MIN_TTL), Ttl(2), Ttl(MAX_TTL)}

\* What the fetch function can resolve to.
Data == {"d1", "d2"}
Empty == {"null", "undefined"}

PatternInputs ==
    { INSURANCE,
      INSURANCE \o <<":">> \o getPolicy,
      <<"C", "O", "N", "T", "R", "A", "C", "T">>,
      <<"\"", "i", "d", "\"", ":", "\"", "1", "\"">>,
      <<"S", "A", "V", "I", "N", "G", "S">>,
      <<>>,
      <<"<", "s", "c", "r", "i", "p", "t", ">">>,
      [i \in 1..(MAX_KEY_LENGTH + 1) |-> "x"] }

\* validateContractId, validateMethod and validateArgs on each call
\* descriptor, in the order cachedContractCall runs them, computed once.
Validated ==
    [d \in CallInputs |-> FirstError(<<validateContractId(d.contractId),
                                       validateMethod(d.method),
                                       validateArgs(d.args)>>)]

\* generateCacheKey on each call descriptor, computed once.
Derived ==
    [d \in CallInputs |-> generateCacheKey(d.contractId, d.method, d.args)]

Keys == {Derived[d].key : d \in ValidCalls \cup KeyCalls}

(***************************************************************************)
(* State                                                                   *)
(***************************************************************************)
VARIABLES
    cache,        \* the LRU store, most recently used first
    cacheHits,    \* metrics
    cacheMisses,
    now,          \* Date.now(), in milliseconds
    calls,        \* bag of the cachedContractCall invocations awaiting fetchFn()
    returned,     \* what the operation that ran last returned or threw
    invalidated,  \* history: the key of the latest invalidate() that returned,
                  \* while no cachedContractCall for it has started since
    evicted,      \* history: the items the operation that ran last pushed out
                  \* of the store to make room
    storeFault,   \* the access to the store that throws, if one does
    answered,     \* what the cached wrapper that ran last returned or threw
    response,     \* the response of the route handler that ran last
    nonceCache,   \* address -> { nonce, expiresAt }
    nonceLog      \* history: for each nonce generated, in order, when and for
                  \* which address it was set, how often getAndClearNonce
                  \* returned it and how often its signature was verified

\* The state of the cache module.
cacheVars ==
    <<cache, cacheHits, cacheMisses, now, calls, returned, invalidated, evicted>>

\* The state of the nonce cache, with its history.
authVars == <<nonceCache, nonceLog>>

\* What the operations of the cache module leave as it is.
outerVars == <<storeFault, answered, response, authVars>>

vars == <<cache, cacheHits, cacheMisses, now, calls, returned, invalidated,
          evicted, storeFault, answered, response, nonceCache, nonceLog>>

\* No response yet.
NoResponse == [route |-> "none", status |-> 0, success |-> FALSE]

\* An error: its class, its code if it has one, the parts of its message
\* and its cause if it has one.
Err(class, code, message, cause) ==
    [class |-> class, code |-> code, message |-> message, cause |-> cause]

NoError == Err("none", "none", <<>>, <<>>)

NoKey == <<>>

Init ==
    /\ cache = LRU_reset
    /\ cacheHits = 0
    /\ cacheMisses = 0
    /\ now = 0
    /\ calls = EmptyBag
    /\ returned = [op |-> "none", status |-> "none", val |-> "none"]
    /\ invalidated = NoKey
    /\ evicted = {}
    /\ storeFault = "none"
    /\ answered = [op |-> "none", status |-> "none", val |-> "none",
                   error |-> NoError]
    /\ response = NoResponse
    /\ nonceCache = <<>>
    /\ nonceLog = <<>>

\* The operation `op` returned `val`, threw an error with code `code`, or is
\* suspended at its fetch after a lookup that found the key absent, expired
\* or stored under another TTL.
Returned(op, val) == [op |-> op, status |-> "returned", val |-> val]
Threw(op, code) == [op |-> op, status |-> "threw", val |-> code]
Pending(op, lookup) == [op |-> op, status |-> "pending", val |-> lookup]

(***************************************************************************)
(* cachedContractCall, up to its return from the store or its suspension   *)
(* at `await fetchFn()`                                                    *)
(***************************************************************************)
\* Variant: the fetch function is not checked.
validateCall_NoFetchCheck(d, ttlSeconds, fetchFnIsFunction) ==
    FirstError(<<Validated[d], validateTTL(ttlSeconds), Derived[d].err>>)

\* Variant: the TTL is not checked.
validateCall_NoTtlCheck(d, ttlSeconds, fetchFnIsFunction) ==
    FirstError(<<Validated[d],
                 IF fetchFnIsFunction THEN OK ELSE INVALID_INPUT,
                 Derived[d].err>>)

\* The errors of the validation block of cachedContractCall, in order.
validateCall(d, ttlSeconds, fetchFnIsFunction) ==
    FirstError(<<Validated[d],
                 validateTTL(ttlSeconds),
                 IF fetchFnIsFunction THEN OK ELSE INVALID_INPUT,
                 Derived[d].err>>)

\* Variants of the hit test: the TTL compared in seconds, an entry of age
\* exactly the TTL still served, the TTL the entry was stored with ignored.
IsHit_Seconds(cached, ttlSeconds, t) ==
    LET age == t - cached.timestamp
    IN  age < ttlSeconds /\ cached.ttl = ttlSeconds

IsHit_Inclusive(cached, ttlSeconds, t) ==
    LET age == t - cached.timestamp
    IN  age <= ttlSeconds * 1000 /\ cached.ttl = ttlSeconds

IsHit_AnyTtl(cached, ttlSeconds, t) ==
    LET age == t - cached.timestamp
    IN  age < ttlSeconds * 1000

\* The hit test of cachedContractCall on the entry found under the key.
IsHit(cached, ttlSeconds, t) ==
    LET age == t - cached.timestamp
    IN  age < ttlSeconds * 1000 /\ cached.ttl = ttlSeconds

\* Why a found entry is not a hit.
Stale(cached, ttlSeconds, t) ==
    IF t - cached.timestamp < ttlSeconds * 1000 THEN "ttl-mismatch"
    ELSE "expired"

\* The invocation suspended at `await fetchFn()`, with the locals it keeps.
Suspended(d, cacheKey, ttlSeconds) ==
    [cacheKey |-> cacheKey, ttlSeconds |-> ttlSeconds,
     contractId |-> d.contractId, method |-> d.method, args |-> d.args]

\* Variant: an invocation joins a fetch already in flight for its key.
Await_SingleFlight(inFlight, call) ==
    IF \E other \in BagToSet(inFlight) : other.cacheKey = call.cacheKey
    THEN inFlight
    ELSE inFlight (+) SetToBag({call})

\* fetchFn() is invoked and the invocation joins the ones in flight.
Await(inFlight, call) == inFlight (+) SetToBag({call})

\* Variant: the entry that is not a hit stays in the store.
Lookup_KeepStale(items, key) == LRU_get(items, key)

\* The store after a lookup that is not a hit: cache.get(cacheKey), then
\* cache.del(cacheKey) when an entry was found.
Lookup(items, key) == LRU_del(LRU_get(items, key), key)

\* Variant: the entry is read without being marked as used (cache.peek).
Served_Peek(items, key) == items

\* The store after a hit: cache.get(cacheKey) made the entry the most
\* recently used one.
Served(items, key) == LRU_get(items, key)

\* Variant: an error of the store is thrown on to the caller.
OnStoreError_Rethrow(access) == "rethrow"

\* The two catch blocks around the accesses to the store, the read and the
\* write: the error is dropped and the call goes on.
OnStoreError(access) == "swallow"

cachedContractCall(d, ttlSeconds, fetchFnIsFunction) ==
    LET op == "cachedContractCall"
        v == validateCall(d, ttlSeconds, fetchFnIsFunction)
        cacheKey == Derived[d].key
        found == LRU_has(cache, cacheKey)
        cached == LRU_peek(cache, cacheKey)
        hit == found /\ IsHit(cached, ttlSeconds.n, now)
        readFails == storeFault = "get" \/ (storeFault = "del" /\ found /\ ~hit)
    IN  IF v # OK
        THEN /\ returned' = Threw(op, v)
             /\ evicted' = {}
             /\ UNCHANGED <<cache, cacheHits, cacheMisses, now, calls,
                            invalidated>>
        ELSE IF readFails /\ OnStoreError("read") = "rethrow"
        THEN /\ returned' = Threw(op, "StoreError")
             /\ cache' = IF storeFault = "del" THEN LRU_get(cache, cacheKey)
                          ELSE cache
             /\ evicted' = {}
             /\ UNCHANGED <<cacheHits, cacheMisses, now, calls, invalidated>>
        ELSE IF readFails
        THEN /\ cacheMisses < MaxCount
             /\ BagCardinality(calls) < MaxCalls
             /\ cache' = IF storeFault = "del" THEN LRU_get(cache, cacheKey)
                          ELSE cache
             /\ cacheMisses' = cacheMisses + 1
             /\ calls' = Await(calls, Suspended(d, cacheKey, ttlSeconds.n))
             /\ returned' = Pending(op, "store-error")
             /\ invalidated' = IF invalidated = cacheKey THEN NoKey
                               ELSE invalidated
             /\ evicted' = {}
             /\ UNCHANGED <<cacheHits, now>>
        ELSE IF hit
        THEN /\ cacheHits < MaxCount
             /\ cache' = Served(cache, cacheKey)
             /\ cacheHits' = cacheHits + 1
             /\ returned' = Returned(op, cached.data)
             /\ invalidated' = IF invalidated = cacheKey THEN NoKey
                               ELSE invalidated
             /\ evicted' = {}
             /\ UNCHANGED <<cacheMisses, now, calls>>
        ELSE /\ cacheMisses < MaxCount
             /\ BagCardinality(calls) < MaxCalls
             /\ cache' = Lookup(cache, cacheKey)
             /\ cacheMisses' = cacheMisses + 1
             /\ calls' = Await(calls, Suspended(d, cacheKey, ttlSeconds.n))
             /\ returned' = Pending(op, IF found
                                        THEN Stale(cached, ttlSeconds.n, now)
                                        ELSE "absent")
             /\ invalidated' = IF invalidated = cacheKey THEN NoKey
                               ELSE invalidated
             /\ evicted' = {}
             /\ UNCHANGED <<cacheHits, now>>

(***************************************************************************)
(* cachedContractCall, from the settlement of fetchFn() to its return      *)
(***************************************************************************)
\* The entry cachedContractCall builds from the fetched data.
NewEntry(call, data, t) ==
    [data |-> data, timestamp |-> t, ttl |-> call.ttlSeconds,
     contractId |-> call.contractId, method |-> call.method]

\* The items a write under `key` pushed out of the store.
Dropped(before, after, key) ==
    {it \in Range(before) : it.key # key /\ ~LRU_has(after, it.key)}

\* Variant: the entry is written before the data is checked.
FetchResolved_CheckAfterStore(call, data) ==
    /\ BagIn(call, calls)
    /\ calls' = calls (-) SetToBag({call})
    /\ cache' = LRU_set(cache, call.cacheKey, NewEntry(call, data, now))
    /\ returned' = IF data \in Empty
                   THEN Threw("cachedContractCall", INVALID_INPUT)
                   ELSE Returned("cachedContractCall", data)
    /\ evicted' = Dropped(cache, cache', call.cacheKey)
    /\ UNCHANGED <<cacheHits, cacheMisses, now, invalidated>>

FetchResolved(call, data) ==
    /\ BagIn(call, calls)
    /\ calls' = calls (-) SetToBag({call})
    /\ IF data \in Empty
       THEN /\ returned' = Threw("cachedContractCall", INVALID_INPUT)
            /\ UNCHANGED cache
       ELSE IF storeFault = "set"
       THEN /\ returned' = IF OnStoreError("write") = "rethrow"
                           THEN Threw("cachedContractCall", "StoreError")
                           ELSE Returned("cachedContractCall", data)
            /\ UNCHANGED cache
       ELSE /\ cache' = LRU_set(cache, call.cacheKey, NewEntry(call, data, now))
            /\ returned' = Returned("cachedContractCall", data)
    /\ evicted' = Dropped(cache, cache', call.cacheKey)
    /\ UNCHANGED <<cacheHits, cacheMisses, now, invalidated>>

\* Variant: the error of the fetch is wrapped in a CacheError.
FetchRejected_Wrapped(call) ==
    /\ BagIn(call, calls)
    /\ calls' = calls (-) SetToBag({call})
    /\ returned' = Threw("cachedContractCall", "FETCH_ERROR")
    /\ evicted' = {}
    /\ UNCHANGED <<cache, cacheHits, cacheMisses, now, invalidated>>

\* Variant: the miss of a call whose fetch fails is taken back.
FetchRejected_Uncounted(call) ==
    /\ BagIn(call, calls)
    /\ calls' = calls (-) SetToBag({call})
    /\ returned' = Threw("cachedContractCall", "FetchError")
    /\ cacheMisses' = IF cacheMisses > 0 THEN cacheMisses - 1 ELSE 0
    /\ evicted' = {}
    /\ UNCHANGED <<cache, cacheHits, now, invalidated>>

FetchRejected(call) ==
    /\ BagIn(call, calls)
    /\ calls' = calls (-) SetToBag({call})
    /\ returned' = Threw("cachedContractCall", "FetchError")
    /\ evicted' = {}
    /\ UNCHANGED <<cache, cacheHits, cacheMisses, now, invalidated>>

(***************************************************************************)
(* Invalidation                                                            *)
(***************************************************************************)
\* Variant: the presence of the key is tested after the deletion.
invalidate_HasAfterDel(d) ==
    IF Derived[d].err # OK
    THEN /\ returned' = Threw("invalidate", Derived[d].err)
         /\ evicted' = {}
         /\ UNCHANGED <<cache, cacheHits, cacheMisses, now, calls,
                        invalidated>>
    ELSE LET cacheKey == Derived[d].key
             existed == LRU_has(LRU_del(cache, cacheKey), cacheKey)
         IN  /\ cache' = LRU_del(cache, cacheKey)
             /\ returned' = Returned("invalidate", existed)
             /\ invalidated' = cacheKey
             /\ evicted' = {}
             /\ UNCHANGED <<cacheHits, cacheMisses, now, calls>>

invalidate(d) ==
    IF Derived[d].err # OK
    THEN /\ returned' = Threw("invalidate", Derived[d].err)
         /\ evicted' = {}
         /\ UNCHANGED <<cache, cacheHits, cacheMisses, now, calls,
                        invalidated>>
    ELSE IF storeFault = "del"
    THEN /\ returned' = Threw("invalidate", INVALID_INPUT)
         /\ evicted' = {}
         /\ UNCHANGED <<cache, cacheHits, cacheMisses, now, calls,
                        invalidated>>
    ELSE LET cacheKey == Derived[d].key
             existed == LRU_has(cache, cacheKey)
         IN  /\ cache' = LRU_del(cache, cacheKey)
             /\ returned' = Returned("invalidate", existed)
             /\ invalidated' = cacheKey
             /\ evicted' = {}
             /\ UNCHANGED <<cacheHits, cacheMisses, now, calls>>

validatePattern(pattern) ==
    IF Len(pattern) = 0 THEN INVALID_INPUT
    ELSE IF Len(pattern) > MAX_KEY_LENGTH THEN INVALID_INPUT
    ELSE IF \E i \in DOMAIN pattern : pattern[i] \notin PatternChars
         THEN INVALID_INPUT
    ELSE OK

\* key.includes(pattern) on the keys and patterns of the model, computed once.
Matches == [k \in Keys, p \in PatternInputs |-> Includes(k, p)]
PatternError == [p \in PatternInputs |-> validatePattern(p)]

invalidatePattern(pattern) ==
    IF PatternError[pattern] # OK
    THEN /\ returned' = Threw("invalidatePattern", PatternError[pattern])
         /\ evicted' = {}
         /\ UNCHANGED <<cache, cacheHits, cacheMisses, now, calls,
                        invalidated>>
    ELSE LET keys == LRU_keys(cache)
             count == Cardinality({i \in DOMAIN keys : Matches[keys[i], pattern]})
         IN  IF storeFault = "del" /\ count > 0
             THEN /\ returned' = Threw("invalidatePattern", "StoreError")
                  /\ evicted' = {}
                  /\ UNCHANGED <<cache, cacheHits, cacheMisses, now, calls,
                                 invalidated>>
             ELSE /\ cache' = SelectSeq(cache, LAMBDA it : ~Matches[it.key, pattern])
                  /\ returned' = Returned("invalidatePattern", count)
                  /\ evicted' = {}
                  /\ UNCHANGED <<cacheHits, cacheMisses, now, calls,
                                 invalidated>>

\* Variant: the store is emptied and the counters are left.
clearCache_StoreOnly ==
    /\ cache' = LRU_reset
    /\ returned' = Returned("clearCache", "undefined")
    /\ evicted' = {}
    /\ UNCHANGED <<cacheHits, cacheMisses, now, calls, invalidated>>

clearCache ==
    /\ cache' = LRU_reset
    /\ cacheHits' = 0
    /\ cacheMisses' = 0
    /\ returned' = Returned("clearCache", "undefined")
    /\ evicted' = {}
    /\ UNCHANGED <<now, calls, invalidated>>

resetMetrics ==
    /\ cacheHits' = 0
    /\ cacheMisses' = 0
    /\ returned' = Returned("resetMetrics", "undefined")
    /\ evicted' = {}
    /\ UNCHANGED <<cache, now, calls, invalidated>>

(***************************************************************************)
(* Observability: the two read-only accessors, as functions of the state   *)
(***************************************************************************)
\* A rate is the exact quotient num/den, or undefined.
Rate(n, total) ==
    IF total > 0 THEN [defined |-> TRUE, num |-> n, den |-> total]
    ELSE [defined |-> FALSE, num |-> 0, den |-> 1]

\* Variant: the hit rate taken over the misses instead of the total.
getCacheStats_HitsPerMiss ==
    LET total == cacheHits + cacheMisses
    IN  [size |-> Len(cache),
         maxSize |-> CACHE_MAX_SIZE,
         itemCount |-> Len(cache),
         hitRate |-> Rate(cacheHits, cacheMisses),
         missRate |-> Rate(cacheMisses, total)]

getCacheStats ==
    LET total == cacheHits + cacheMisses
    IN  [size |-> Len(cache),
         maxSize |-> CACHE_MAX_SIZE,
         itemCount |-> Len(cache),
         hitRate |-> Rate(cacheHits, total),
         missRate |-> Rate(cacheMisses, total)]

getCacheKeys == LRU_keys(cache)

(***************************************************************************)
(* Time                                                                    *)
(***************************************************************************)
Tick ==
    /\ now < MaxTicks * TickMs
    /\ now' = now + TickMs
    /\ UNCHANGED <<cache, cacheHits, cacheMisses, calls, returned, invalidated,
                   evicted>>
    /\ UNCHANGED outerVars

(***************************************************************************)
(* The cached wrappers: validation, cachedContractCall, error mapping      *)
(***************************************************************************)
Answered(op, val) ==
    [op |-> op, status |-> "returned", val |-> val, error |-> NoError]
Rejected(op, error) ==
    [op |-> op, status |-> "threw", val |-> "none", error |-> error]
Awaiting(op) ==
    [op |-> op, status |-> "pending", val |-> "none", error |-> NoError]

\* new Error(message) and new CacheError(message, code).
PlainError(message) == Err("Error", "none", <<message>>, <<>>)
CacheError(code) == Err("CacheError", code, <<code>>, <<>>)

\* What the contract read can reject with: an Error, an Error that carries
\* a code, a CacheError, a value that is not an Error.
RpcError == PlainError("RPC Error")
NotFound == Err("Error", "NOT_FOUND", <<"Policy not found">>, <<>>)
InvalidAddress == Err("Error", "INVALID_ADDRESS", <<"Invalid address">>, <<>>)
ThrownValue == Err("value", "none", <<>>, <<>>)
FetchErrors ==
    {RpcError, NotFound, InvalidAddress, CacheError("FETCH_ERROR"), ThrownValue}

\* The code of the contract's errors a wrapper throws on as they are.
Preserved(w) ==
    CASE w = "getPolicy" -> {"NOT_FOUND"}
      [] w \in {"getActivePolicies", "getTotalMonthlyPremium"} ->
            {"INVALID_ADDRESS"}
      [] OTHER -> {}

Prefix(w) ==
    CASE w = "getSplit" -> "Failed to get split configuration: "
      [] w = "getConfig" -> "Failed to get config: "
      [] w = "calculateSplit" -> "Failed to calculate split: "
      [] w = "getPolicy" -> "Failed to get policy: "
      [] w = "getActivePolicies" -> "Failed to get active policies: "
      [] OTHER -> "Failed to get total monthly premium: "

\* new Error(`${prefix}${message of the error}`, { cause: error })
Wrapped(w, error) ==
    Err("Error", "none",
        <<Prefix(w)>> \o (IF error.class = "value" THEN <<"Unknown error">>
                          ELSE error.message),
        <<error>>)

\* Variant: every error is wrapped.
WrapperCatch_WrapAll(w, error) == Wrapped(w, error)

\* The catch block of a wrapper.
WrapperCatch(w, error) ==
    IF error.class # "value" /\ error.code \in Preserved(w) THEN error
    ELSE IF error.class = "CacheError" THEN error
    ELSE Wrapped(w, error)

\* Premiums the contract read can resolve to, as the text of the number.
Premiums == {"100", "-100", "NaN"}
FinitePremiums == {"100", "-100"}
NegativePremiums == {"-100"}

\* What the contract read can resolve to.
ResultsOf(method) ==
    IF method = getTotalMonthlyPremium THEN Premiums \cup {"null"}
    ELSE {"d1", "null"}

\* The checks of getTotalMonthlyPremium on the result, inside its try block.
validatePremium(result) ==
    IF result \notin FinitePremiums
    THEN "Invalid premium value returned from contract"
    ELSE IF result \in NegativePremiums THEN "Premium cannot be negative"
    ELSE "none"

\* What a wrapper does with the outcome of its cachedContractCall.
Through(w, outcome) ==
    IF outcome.status = "pending" THEN Awaiting(w)
    ELSE IF outcome.status = "threw"
    THEN Rejected(w, WrapperCatch(w, CacheError(outcome.val)))
    ELSE IF w = "getTotalMonthlyPremium" /\ validatePremium(outcome.val) # "none"
    THEN Rejected(w, WrapperCatch(w, PlainError(validatePremium(outcome.val))))
    ELSE Answered(w, outcome.val)

\* A wrapper, up to its return or its suspension at cachedContractCall.
CachedWrapper(w, x) ==
    IF WrapperInputError(w, x) # "none"
    THEN /\ answered' = Rejected(w, PlainError(WrapperInputError(w, x)))
         /\ UNCHANGED <<cache, cacheHits, cacheMisses, now, calls, returned,
                        invalidated, evicted, storeFault, response, authVars>>
    ELSE /\ cachedContractCall(WrapperCall(w, x), Ttl(WrapperTtl(w)), TRUE)
         /\ answered' = Through(w, returned')
         /\ UNCHANGED <<storeFault, response, authVars>>

\* A wrapper, from the resolution of the contract read to its return.
WrapperResolved(call, data) ==
    /\ FetchResolved(call, data)
    /\ answered' = Through(WrapperOf(call.method), returned')
    /\ UNCHANGED <<storeFault, response, authVars>>

\* A wrapper, from the rejection of the contract read to its return.
WrapperRejected(call, error) ==
    /\ FetchRejected(call)
    /\ answered' =
        Rejected(WrapperOf(call.method),
                 WrapperCatch(WrapperOf(call.method),
                              IF returned'.val = "FetchError" THEN error
                              ELSE CacheError(returned'.val)))
    /\ UNCHANGED <<storeFault, response, authVars>>

(***************************************************************************)
(* The route POST /api/cache/invalidate                                    *)
(***************************************************************************)
MAX_BODY_SIZE == 10240

\* The messages of the errors validateRequestBody throws, and the text the
\* handler looks for in the message of an error it caught.
BodyTooLarge ==
    <<"R", "e", "q", "u", "e", "s", "t", " ", "b", "o", "d", "y", " ", "e",
      "x", "c", "e", "e", "d", "s", " ", "m", "a", "x", "i", "m", "u", "m",
      " ", "s", "i", "z", "e", " ", "o", "f", " ", "1", "0", "2", "4", "0",
      " ", "b", "y", "t", "e", "s">>
BodyEmpty ==
    <<"R", "e", "q", "u", "e", "s", "t", " ", "b", "o", "d", "y", " ", "i",
      "s", " ", "e", "m", "p", "t", "y">>
BodyInvalidJson ==
    <<"I", "n", "v", "a", "l", "i", "d", " ", "J", "S", "O", "N", " ", "i",
      "n", " ", "r", "e", "q", "u", "e", "s", "t", " ", "b", "o", "d", "y">>
RequestBody ==
    <<"R", "e", "q", "u", "e", "s", "t", " ", "b", "o", "d", "y">>
\* The message of an error none of the handler's code throws.
Unexpected ==
    <<"c", "a", "c", "h", "e", ".", "d", "e", "l", " ", "f", "a", "i", "l",
      "e", "d">>

\* What JSON.parse makes of the text of a request: a syntax error, a value
\* that is no object, or an object with these properties (undefined when
\* the object has none of the name).
Json(t, clearAll, pattern, contractId, method, args) ==
    [t |-> t, clearAll |-> clearAll, pattern |-> pattern,
     contractId |-> contractId, method |-> method, args |-> args]

NotJsonObject(t) ==
    Json(t, FALSE, Undefined, Undefined, Undefined, NotObj("undefined"))

\* The text of a request: its length, whether it trims to nothing, and
\* what JSON.parse makes of it.
Request(length, blank, parsed) ==
    [length |-> length, blank |-> blank, parsed |-> parsed]

\* The message of the error validateRequestBody throws, if it throws.
validateRequestBody(request) ==
    IF request.length > MAX_BODY_SIZE THEN BodyTooLarge
    ELSE IF request.blank THEN BodyEmpty
    ELSE IF request.parsed.t = "syntax-error" THEN BodyInvalidJson
    ELSE <<>>

Response(status) ==
    [route |-> "POST /api/cache/invalidate", status |-> status,
     success |-> status = 200]

\* The catch block of the handler, on an error with this message.
HandlerCatch(message) ==
    IF Includes(message, RequestBody) THEN Response(400) ELSE Response(500)

\* The response after invalidate or invalidatePattern returned or threw:
\* a CacheError is answered in the inner catch, another error is thrown on
\* to the catch block of the handler.
AfterInvalidation(outcome) ==
    IF outcome.status # "threw" THEN Response(200)
    ELSE IF outcome.val = "StoreError" THEN HandlerCatch(Unexpected)
    ELSE Response(400)

\* typedBody.args when it is an object and no array, {} otherwise.
ArgsOf(body) == IF body.args.t = "object" THEN body.args ELSE Obj(<<>>)

POST(request) ==
    LET body == request.parsed
    IN  /\ IF validateRequestBody(request) # <<>>
           THEN /\ response' = HandlerCatch(validateRequestBody(request))
                /\ UNCHANGED cacheVars
           ELSE IF body.t # "object"
           THEN /\ response' = Response(400)
                /\ UNCHANGED cacheVars
           ELSE IF body.clearAll
           THEN /\ clearCache
                /\ response' = Response(200)
           ELSE IF body.pattern.t = "str"
           THEN /\ invalidatePattern(body.pattern.s)
                /\ response' = AfterInvalidation(returned')
           ELSE IF body.contractId.t = "str" /\ body.method.t = "str"
           THEN /\ invalidate(Call(body.contractId.s, body.method.s, ArgsOf(body)))
                /\ response' = AfterInvalidation(returned')
           ELSE IF body.contractId.t = "str"
           THEN /\ invalidatePattern(body.contractId.s)
                /\ response' = AfterInvalidation(returned')
           ELSE /\ response' = Response(400)
                /\ UNCHANGED cacheVars
        /\ UNCHANGED <<storeFault, answered, authVars>>

(***************************************************************************)
(* The nonce cache and the routes that use it                              *)
(***************************************************************************)
NONCE_TTL_MS == 5 * 60 * 1000

\* nonceCache.set(address, value), nonceCache.get, nonceCache.has
NonceSet(map, address, value) ==
    [a \in DOMAIN map \cup {address} |-> IF a = address THEN value ELSE map[a]]

\* Variant: nothing is deleted.
NonceDelete_Noop(map, address) == map

\* nonceCache.delete(address)
NonceDelete(map, address) == [a \in DOMAIN map \ {address} |-> map[a]]

\* setNonce: the map after the call.
setNonce(map, address, nonce, t) ==
    NonceSet(map, address, [nonce |-> nonce, expiresAt |-> t + NONCE_TTL_MS])

\* getAndClearNonce: the nonce returned (0 for null) and the map after the
\* call.
getAndClearNonce(map, address, t) ==
    IF address \notin DOMAIN map THEN [nonce |-> 0, map |-> map]
    ELSE IF t > map[address].expiresAt
    THEN [nonce |-> 0, map |-> NonceDelete(map, address)]
    ELSE [nonce |-> map[address].nonce, map |-> NonceDelete(map, address)]

\* A signature: who signed which nonce.  keypair.verify(nonce, signature)
\* accepts the signatures of that nonce made with the key of the address.
Signature(signer, nonce) == [signer |-> signer, nonce |-> nonce]
NoSignature == Signature("", 0)
Verify(address, nonce, signature) == signature = Signature(address, nonce)

AuthResponse(route, status) ==
    [route |-> route, status |-> status, success |-> status = 200]

\* GET /api/auth/nonce: a nonce no request was given before is generated
\* and set for the address.
NonceRequest(address) ==
    LET route == "GET /api/auth/nonce"
        nonce == Len(nonceLog) + 1
    IN  /\ IF address = ""
           THEN /\ response' = AuthResponse(route, 400)
                /\ UNCHANGED <<nonceCache, nonceLog>>
           ELSE /\ Len(nonceLog) < MaxNonces
                /\ nonceCache' = setNonce(nonceCache, address, nonce, now)
                /\ nonceLog' = Append(nonceLog,
                                      [address |-> address, setAt |-> now,
                                       found |-> 0, returnedAt |-> <<>>,
                                       verified |-> 0])
                /\ response' = AuthResponse(route, 200)
        /\ UNCHANGED <<cacheVars, storeFault, answered>>

\* The history after getAndClearNonce found the nonce, returned it or not,
\* and after its signature was verified or not.
Logged(log, nonce, isReturned, isVerified, t) ==
    [log EXCEPT ![nonce] =
        [@ EXCEPT !.found = @ + 1,
                  !.returnedAt = IF isReturned THEN Append(@, t) ELSE @,
                  !.verified = IF isVerified THEN @ + 1 ELSE @]]

\* POST /api/auth/nonce-login
NonceLogin(address, signature) ==
    LET route == "POST /api/auth/nonce-login"
        got == getAndClearNonce(nonceCache, address, now)
        held == IF address \in DOMAIN nonceCache THEN nonceCache[address].nonce
                ELSE 0
        isValid == got.nonce # 0 /\ Verify(address, got.nonce, signature)
    IN  /\ IF address = "" \/ signature = NoSignature
           THEN /\ response' = AuthResponse(route, 400)
                /\ UNCHANGED <<nonceCache, nonceLog>>
           ELSE /\ nonceCache' = got.map
                /\ nonceLog' = IF held = 0 THEN nonceLog
                               ELSE Logged(nonceLog, held, got.nonce # 0,
                                           isValid, now)
                /\ response' = AuthResponse(route, IF isValid THEN 200 ELSE 401)
        /\ UNCHANGED <<cacheVars, storeFault, answered>>

\* Date.now() advances by one millisecond, or by the lifetime of a nonce.  The
\* clock is followed up to MaxLate milliseconds after time 0 and after the
\* lifetime of a nonce set at time 0.
Elapse(ms) ==
    /\ now + ms <= NONCE_TTL_MS + MaxLate
    /\ (now + ms) % NONCE_TTL_MS <= MaxLate
    /\ now' = now + ms
    /\ UNCHANGED <<cache, cacheHits, cacheMisses, calls, returned, invalidated,
                   evicted, outerVars>>

(***************************************************************************)
(* Specifications.  The actions are the same in all of them; they differ   *)
(* in the inputs the callers choose.                                       *)
(***************************************************************************)
Calls(callInputs, ttlInputs, fnInputs) ==
    \E d \in callInputs, ttlSeconds \in ttlInputs, fetchFnIsFunction \in fnInputs :
        cachedContractCall(d, ttlSeconds, fetchFnIsFunction)
        /\ UNCHANGED outerVars

Resolves(dataInputs) ==
    \E call \in BagToSet(calls), data \in dataInputs :
        FetchResolved(call, data) /\ UNCHANGED outerVars

Rejects ==
    \E call \in BagToSet(calls) : FetchRejected(call) /\ UNCHANGED outerVars

Invalidates(callInputs) ==
    \E d \in callInputs : invalidate(d) /\ UNCHANGED outerVars

InvalidatesPattern(patternInputs) ==
    \E pattern \in patternInputs :
        invalidatePattern(pattern) /\ UNCHANGED outerVars

\* Callers of the two operations that take no argument.
Clears == clearCache /\ UNCHANGED outerVars

Resets == resetMetrics /\ UNCHANGED outerVars

ValidPatterns == {p \in PatternInputs : PatternError[p] = OK}

\* Callers of two keys under one contract and method.
PairCalls == {d \in ValidCalls : d.contractId = INSURANCE}

\* Calls with an invalid argument: one invalid argument each, then an
\* invalid contract id next to other invalid arguments.
InvalidCases ==
    {<<d, Ttl(1), TRUE>> : d \in InvalidCalls}
    \cup {<<d, t, TRUE>> : d \in PairCalls, t \in InvalidTtls}
    \cup {<<d, Ttl(1), FALSE>> : d \in PairCalls \cup {LongKeyCall}}
    \cup {<<d, t, f>> : d \in BadContractCalls, t \in {Ttl(1), NaN},
                        f \in BOOLEAN}

InvalidInputs ==
    \/ \E x \in InvalidCases :
          cachedContractCall(x[1], x[2], x[3]) /\ UNCHANGED outerVars
    \/ Invalidates(InvalidCalls)
    \/ InvalidatesPattern(PatternInputs \ ValidPatterns)

\* Callers of three keys under one TTL, with the clock standing still.
Next ==
    \/ Calls(ValidCalls, {Ttl(1)}, {TRUE})
    \/ Resolves(Data \cup Empty)
    \/ Rejects
    \/ Invalidates(ValidCalls)
    \/ InvalidatesPattern(ValidPatterns)
    \/ Clears
    \/ Resets

Spec == Init /\ [][Next]_vars

\* Callers of one key under two TTLs, with the clock advancing.
TimedCalls == {d \in ValidCalls : d.contractId = REMITTANCE_SPLIT}

NextTimed ==
    \/ Calls(TimedCalls, {Ttl(1), Ttl(2)}, {TRUE})
    \/ Resolves(Data \cup Empty)
    \/ Rejects
    \/ Invalidates(TimedCalls)
    \/ InvalidatesPattern(ValidPatterns)
    \/ Clears
    \/ Resets
    \/ Tick

SpecTimed == Init /\ [][NextTimed]_vars

\* Callers of two keys who also pass invalid arguments.
NextInvalid ==
    \/ Calls(PairCalls, {Ttl(1)}, {TRUE})
    \/ InvalidInputs
    \/ Resolves({"d1"})
    \/ Clears

SpecInvalid == Init /\ [][NextInvalid]_vars

\* Calls with an invalid TTL, the fetch argument and the length of the key
\* valid or not.
TtlCases ==
    {<<d, t, f>> : d \in TimedCalls \cup {LongKeyCall}, t \in InvalidTtls,
                   f \in BOOLEAN}

\* Callers of one key under the two ends of the TTL range, who also pass
\* invalid TTLs.
NextTtl ==
    \/ Calls(TimedCalls, {Ttl(MIN_TTL), Ttl(MAX_TTL)}, {TRUE})
    \/ \E x \in TtlCases :
          cachedContractCall(x[1], x[2], x[3]) /\ UNCHANGED outerVars
    \/ Resolves({"d1"})
    \/ Clears

SpecTtl == Init /\ [][NextTtl]_vars

\* The fetch of a call resolves to the result for the arguments of the call.
ResolvesOwn ==
    \E call \in BagToSet(calls) :
        /\ FetchResolved(call, DataOf(call.contractId, call.method, call.args))
        /\ UNCHANGED outerVars

\* Callers whose args differ in order or in one value, each with a fetch
\* function for its own arguments.
NextKeys ==
    \/ Calls(KeyCalls, {Ttl(1)}, {TRUE})
    \/ ResolvesOwn
    \/ Clears

SpecKeys == Init /\ [][NextKeys]_vars

\* Callers of three keys under a TTL of two ticks, with the clock advancing.
NextLru ==
    \/ Calls(ValidCalls, {Ttl(2)}, {TRUE})
    \/ Resolves({"d1"})
    \/ Resets
    \/ Tick

SpecLru == Init /\ [][NextLru]_vars

\* The store starts or stops throwing at one of its accesses.
StoreFaults == {"none", "get", "del", "set"}

StoreFault(access) ==
    /\ storeFault # access
    /\ storeFault' = access
    /\ UNCHANGED <<cacheVars, answered, response, authVars>>

\* Callers of one key under two TTLs, with a store whose accesses can throw.
NextFault ==
    \/ \E access \in StoreFaults : StoreFault(access)
    \/ Calls(TimedCalls, {Ttl(1), Ttl(2)}, {TRUE})
    \/ Resolves({"d1", "null"})
    \/ Rejects
    \/ Clears

SpecFault == Init /\ [][NextFault]_vars

\* Callers of the six cached wrappers, each contract read resolving or
\* rejecting.
WrapperCallers ==
    \E w \in Wrappers : \E x \in WrapperInputs(w) : CachedWrapper(w, x)

WrapperResolves ==
    \E call \in BagToSet(calls) :
        \E data \in ResultsOf(call.method) : WrapperResolved(call, data)

WrapperRejects ==
    \E call \in BagToSet(calls), error \in FetchErrors :
        WrapperRejected(call, error)

NextWrappers ==
    \/ WrapperCallers
    \/ WrapperResolves
    \/ WrapperRejects

SpecWrappers == Init /\ [][NextWrappers]_vars

\* The bodies of the requests to POST /api/cache/invalidate: texts that are
\* no JSON or no JSON object, and objects that name no operation, one
\* operation, or an operation with an argument invalidate refuses.
Bodies ==
    LET none == NotObj("undefined")
        id1 == Obj(<<Prop(<<"i", "d">>, Str(<<"1">>))>>)
    IN  { NotJsonObject("syntax-error"), NotJsonObject("null"),
          NotJsonObject("array"), NotJsonObject("number"),
          Json("object", FALSE, Undefined, Undefined, Undefined, none),
          Json("object", FALSE, Undefined, Undefined, Str(getPolicy), none),
          Json("object", TRUE, Undefined, Undefined, Undefined, none),
          Json("object", FALSE, Str(INSURANCE \o <<":">> \o getPolicy),
               Undefined, Undefined, none),
          Json("object", FALSE, Str(<<"<", "s", "c", "r", "i", "p", "t", ">">>),
               Undefined, Undefined, none),
          Json("object", FALSE, Str(<<>>), Undefined, Undefined, none),
          Json("object", FALSE, Undefined, Str(INSURANCE), Undefined, none),
          Json("object", FALSE, Undefined, Str(INSURANCE), Str(getPolicy), none),
          Json("object", FALSE, Undefined, Str(INSURANCE), Str(getPolicy), id1),
          Json("object", FALSE, Undefined, Str(INSURANCE), Str(getPolicy),
               NotObj("array")),
          Json("object", FALSE, Undefined, Str(INSURANCE), Str(BadMethod), none),
          Json("object", FALSE, Undefined, Str(UnknownContract), Str(getPolicy),
               none) }

\* The requests: each body as a text of 20 characters, then the texts that
\* are too long, empty or blank.
Requests ==
    {Request(20, FALSE, body) : body \in Bodies}
    \cup {Request(MAX_BODY_SIZE + 1, FALSE,
                  Json("object", TRUE, Undefined, Undefined, Undefined,
                       NotObj("undefined"))),
          Request(0, TRUE, NotJsonObject("syntax-error")),
          Request(2, TRUE, NotJsonObject("syntax-error"))}

Posts == \E request \in Requests : POST(request)

\* Callers of three keys and clients of the route, with a store whose
\* accesses can throw.
NextRoute ==
    \/ Calls(ValidCalls, {Ttl(1)}, {TRUE})
    \/ Resolves({"d1"})
    \/ Posts
    \/ \E access \in {"none", "del"} : StoreFault(access)

SpecRoute == Init /\ [][NextRoute]_vars

\* Two addresses, and the request that names none.
Addresses == {"GA", "GB"}

\* The signatures a client can send: none, and the signature by the key of
\* an address of a nonce generated so far.
Signatures ==
    {NoSignature}
    \cup {Signature(a, n) : a \in Addresses, n \in DOMAIN nonceLog}

NonceRequests == \E address \in Addresses \cup {""} : NonceRequest(address)

NonceLogins ==
    \E address \in Addresses \cup {""}, signature \in Signatures :
        NonceLogin(address, signature)

Elapses == \E ms \in {1, NONCE_TTL_MS} : Elapse(ms)

NextAuth ==
    \/ NonceRequests
    \/ NonceLogins
    \/ Elapses

SpecAuth == Init /\ [][NextAuth]_vars

\* Callers of two keys under the two ends of the TTL range, who also pass
\* invalid arguments and invalid TTLs, with fetches that resolve to data or
\* to null.
NextEntries ==
    \/ Calls(PairCalls, {Ttl(MIN_TTL), Ttl(MAX_TTL)}, {TRUE})
    \/ \E x \in InvalidCases \cup TtlCases :
          cachedContractCall(x[1], x[2], x[3]) /\ UNCHANGED outerVars
    \/ Resolves({"d1", "null", "undefined"})
    \/ Rejects
    \/ Invalidates(PairCalls)
    \/ Clears

SpecEntries == Init /\ [][NextEntries]_vars

\* Callers of three keys who invalidate and clear the cache but never call
\* resetMetrics.
NextNoReset ==
    \/ Calls(ValidCalls, {Ttl(1)}, {TRUE})
    \/ Resolves(Data \cup Empty)
    \/ Rejects
    \/ Invalidates(ValidCalls)
    \/ InvalidatesPattern(ValidPatterns)
    \/ Clears

SpecNoReset == Init /\ [][NextNoReset]_vars

(***************************************************************************)
(* Properties                                                              *)
(***************************************************************************)
\* The [key, value] items of the store, whatever their recency order.
Entries(items) == Range(items)

\* C1: a cachedContractCall that starts while the store holds an entry for
\* its key, stored under the same TTL less than ttlSeconds*1000 ms ago,
\* returns that entry's data without invoking fetch; and the call that
\* stored the entry returned the same data, having invoked fetch once.  So
\* the two calls invoke fetch once in total and return the same data.
C1_SecondCallServedFromStore ==
    [][ /\ \A d \in TimedCalls, t \in {1, 2} :
            LET k == Derived[d].key
            IN  ( /\ LRU_has(cache, k)
                  /\ LRU_peek(cache, k).ttl = t
                  /\ now - LRU_peek(cache, k).timestamp < t * 1000
                  /\ cachedContractCall(d, Ttl(t), TRUE) )
                => /\ calls' = calls
                   /\ cacheMisses' = cacheMisses
                   /\ returned' = Returned("cachedContractCall",
                                           LRU_peek(cache, k).data)
        /\ \A call \in BagToSet(calls), data \in Data :
            FetchResolved(call, data)
            => /\ BagCardinality(calls') = BagCardinality(calls) - 1
               /\ returned' = Returned("cachedContractCall", data)
               /\ LRU_peek(cache', call.cacheKey).data = data
      ]_vars

\* A hit has been counted and the last call returned the data of the entry,
\* which was stored at an earlier time.
C1_Witness ==
    /\ cacheHits = 1
    /\ cacheMisses = 1
    /\ calls = EmptyBag
    /\ cache # <<>>
    /\ returned = Returned("cachedContractCall", cache[1].value.data)
    /\ now > cache[1].value.timestamp

\* C2: a call is served from the store only while the entry is younger than
\* ttlSeconds*1000 ms, and serving it leaves the entry, its timestamp
\* included, as it was; a call that finds the entry at an age of
\* ttlSeconds*1000 ms or more deletes it and invokes fetch, and the data it
\* returns is the data that fetch resolves to.
C2_ServedOnlyWhileFresh ==
    [][ /\ \A d \in TimedCalls, t \in {1, 2} :
            LET k == Derived[d].key
            IN  cachedContractCall(d, Ttl(t), TRUE)
                => /\ cacheHits' # cacheHits
                      => /\ LRU_has(cache, k)
                         /\ now - LRU_peek(cache, k).timestamp < t * 1000
                         /\ Entries(cache') = Entries(cache)
                         /\ calls' = calls
                   /\ ( /\ LRU_has(cache, k)
                        /\ now - LRU_peek(cache, k).timestamp >= t * 1000 )
                      => /\ ~LRU_has(cache', k)
                         /\ BagCardinality(calls') = BagCardinality(calls) + 1
                         /\ returned' = Pending("cachedContractCall", "expired")
        /\ \A call \in BagToSet(calls), data \in Data :
            FetchResolved(call, data)
            => returned' = Returned("cachedContractCall", data)
      ]_vars

\* A call has just found its entry expired: the entry is gone and the fetch
\* is in flight.
C2_Witness ==
    /\ returned = Pending("cachedContractCall", "expired")
    /\ cache = <<>>
    /\ BagCardinality(calls) = 1
    /\ cacheMisses = 2

\* C3: a call that finds an entry stored under another TTL deletes it and
\* invokes fetch, whatever the entry's age; the entry written when that
\* fetch resolves carries the TTL of the call.
C3_TtlMismatchRefetches ==
    [][ /\ \A d \in TimedCalls, t \in {1, 2} :
            LET k == Derived[d].key
            IN  ( /\ LRU_has(cache, k)
                  /\ LRU_peek(cache, k).ttl # t
                  /\ cachedContractCall(d, Ttl(t), TRUE) )
                => /\ ~LRU_has(cache', k)
                   /\ calls' = calls (+) SetToBag({Suspended(d, k, t)})
                   /\ cacheHits' = cacheHits
                   /\ returned'.status = "pending"
        /\ \A call \in BagToSet(calls), data \in Data :
            FetchResolved(call, data)
            => /\ LRU_has(cache', call.cacheKey)
               /\ LRU_peek(cache', call.cacheKey).ttl = call.ttlSeconds
      ]_vars

\* A call has just found an entry that is young enough but was stored under
\* another TTL.
C3_Witness ==
    /\ returned = Pending("cachedContractCall", "ttl-mismatch")
    /\ cache = <<>>
    /\ \E call \in BagToSet(calls) : call.ttlSeconds = 1

\* C4: a call that starts while another call for the same key awaits its
\* fetch, and finds no entry, counts a miss and invokes its own fetch: the
\* calls in flight for the key become one more.
C4_OverlappingCallsEachFetch ==
    [][ \A d \in ValidCalls :
            LET k == Derived[d].key
            IN  ( /\ \E call \in BagToSet(calls) : call.cacheKey = k
                  /\ ~LRU_has(cache, k)
                  /\ cachedContractCall(d, Ttl(1), TRUE) )
                => /\ cacheMisses' = cacheMisses + 1
                   /\ cacheHits' = cacheHits
                   /\ calls' = calls (+) SetToBag({Suspended(d, k, 1)})
                   /\ BagCardinality(calls') = BagCardinality(calls) + 1
      ]_vars

\* Two fetches are in flight for one key, each after its own miss.
C4_Witness ==
    /\ cacheMisses = 2
    /\ \E c1 \in BagToSet(calls) : CopiesIn(c1, calls) = 2

\* C5 as stated: while a call stays suspended at its fetch, no step of
\* another cache operation changes the store or the counters.
C5_NoOperationDuringFetch ==
    [][ ( /\ calls # EmptyBag
          /\ \A call \in BagToSet(calls) :
                CopiesIn(call, calls') >= CopiesIn(call, calls) )
        => UNCHANGED <<cache, cacheHits, cacheMisses>>
      ]_vars

\* C5 as amended: a cachedContractCall is two synchronous steps around its
\* fetch.  The step that suspends it has looked the key up, removed an entry
\* that is not a hit, counted the miss and invoked fetch; the step that
\* settles it checks the data, writes the entry with the time of settlement
\* and returns.  Other cache operations run between the two.
C5_TwoSynchronousSteps ==
    [][ /\ BagCardinality(calls') > BagCardinality(calls)
           => /\ cacheMisses' = cacheMisses + 1
              /\ cacheHits' = cacheHits
              /\ \E call \in BagToSet(calls') :
                    /\ calls' = calls (+) SetToBag({call})
                    /\ ~LRU_has(cache', call.cacheKey)
                    /\ Entries(cache') = {it \in Entries(cache) :
                                             it.key # call.cacheKey}
        /\ BagCardinality(calls') < BagCardinality(calls)
           => /\ UNCHANGED <<cacheHits, cacheMisses>>
              /\ \E call \in BagToSet(calls) :
                    /\ calls' = calls (-) SetToBag({call})
                    /\ \/ cache' = cache /\ returned'.status = "threw"
                       \/ /\ returned'.status = "returned"
                          /\ cache'[1].key = call.cacheKey
                          /\ cache'[1].value.data = returned'.val
                          /\ cache'[1].value.timestamp = now
                          /\ cache'[1].value.ttl = call.ttlSeconds
      ]_vars

\* An invalidation or a clear has run while a call was suspended at its fetch.
C5_Witness ==
    /\ calls # EmptyBag
    /\ returned.op \in {"invalidate", "invalidatePattern", "clearCache"}
    /\ returned.status = "returned"

\* C6: the first cachedContractCall to start for a key after invalidate
\* returned for that key is not served from the store: it invokes fetch.
C6_InvalidateForcesRefetch ==
    [][ \A d \in ValidCalls :
            ( /\ invalidated = Derived[d].key
              /\ cachedContractCall(d, Ttl(1), TRUE) )
            => /\ cacheHits' = cacheHits
               /\ BagCardinality(calls') = BagCardinality(calls) + 1
      ]_vars

\* The statistics clearCache leaves behind.
ClearedStats ==
    [size |-> 0, maxSize |-> CACHE_MAX_SIZE, itemCount |-> 0,
     hitRate |-> [defined |-> FALSE, num |-> 0, den |-> 1],
     missRate |-> [defined |-> FALSE, num |-> 0, den |-> 1]]

\* C7: the step of clearCache empties the store and zeroes both counters at
\* once, whatever the store and the counters held: the state it returns in
\* has no entry, no hit and no miss, and getCacheStats reports size 0 and
\* both rates undefined.
C7_ClearIsOneStep ==
    [][ returned'.op = "clearCache"
        => /\ cache' = <<>>
           /\ cacheHits' = 0
           /\ cacheMisses' = 0
           /\ getCacheStats' = ClearedStats
      ]_vars

\* clearCache has returned after a miss: the fetch of that miss is still in
\* flight.
C7_Witness ==
    /\ returned.op = "clearCache"
    /\ calls # EmptyBag
    /\ getCacheStats.size = 0

\* C8: invalidate with valid inputs returns whether the store held the key
\* and leaves no entry for it and the other entries as they were; run again
\* right after it returned true for the same key, it returns false and
\* changes nothing else.
C8_InvalidateReturnsWhetherHeld ==
    [][ \A d \in ValidCalls :
            LET k == Derived[d].key
            IN  (returned'.op = "invalidate" /\ invalidate(d))
                => /\ returned' = Returned("invalidate", LRU_has(cache, k))
                   /\ ~LRU_has(cache', k)
                   /\ cache' = SelectSeq(cache, LAMBDA it : it.key # k)
                   /\ UNCHANGED <<cacheHits, cacheMisses, calls>>
                   /\ ( /\ returned = Returned("invalidate", TRUE)
                        /\ invalidated = k )
                      => /\ returned' = Returned("invalidate", FALSE)
                         /\ cache' = cache
      ]_vars

\* invalidate has returned true for a key and another entry is still stored.
C8_Witness ==
    /\ returned = Returned("invalidate", TRUE)
    /\ invalidated \in Keys
    /\ Len(cache) = 1

\* p occurs in s as a run of consecutive characters.
Occurs(p, s) ==
    \E i \in 1..(Len(s) + 1), j \in 0..Len(s) : SubSeq(s, i, j) = p

\* The keys each pattern of the model occurs in, computed once.
KeysWith == [p \in PatternInputs |-> {k \in Keys : Occurs(p, k)}]

\* C9: invalidatePattern with a valid pattern removes the entries whose key
\* contains the pattern and no other, keeps the others in their order,
\* returns the number removed and leaves both counters alone.
C9_PatternRemovesExactlyMatches ==
    [][ \A p \in ValidPatterns :
            (returned'.op = "invalidatePattern" /\ invalidatePattern(p))
            => /\ cache' = SelectSeq(cache, LAMBDA it : it.key \notin KeysWith[p])
               /\ returned' = Returned("invalidatePattern",
                                       Len(cache) - Len(cache'))
               /\ UNCHANGED <<cacheHits, cacheMisses, calls>>
      ]_vars

\* invalidatePattern has removed one of two entries.
C9_Witness ==
    /\ returned = Returned("invalidatePattern", 1)
    /\ Len(cache) = 1

\* C10: both rates are defined exactly when hits + misses > 0, and then
\* hitRate = hits/(hits+misses) and missRate = misses/(hits+misses), 1/2 each
\* after one miss and one hit; a call served from the store adds one hit and
\* a call that reaches fetch adds one miss.
C10_RatesOverTotal ==
    [][ /\ LET total == cacheHits' + cacheMisses'
               stats == getCacheStats'
           IN  /\ stats.hitRate.defined = (total > 0)
               /\ stats.missRate.defined = (total > 0)
               /\ total > 0
                  => /\ stats.hitRate.num * total = cacheHits' * stats.hitRate.den
                     /\ stats.missRate.num * total
                            = cacheMisses' * stats.missRate.den
               /\ (cacheHits' = 1 /\ cacheMisses' = 1)
                  => /\ 2 * stats.hitRate.num = stats.hitRate.den
                     /\ 2 * stats.missRate.num = stats.missRate.den
        /\ \A d \in ValidCalls :
            (returned'.op = "cachedContractCall" /\ cachedContractCall(d, Ttl(1), TRUE))
            => IF returned'.status = "returned"
               THEN cacheHits' = cacheHits + 1 /\ cacheMisses' = cacheMisses
               ELSE cacheMisses' = cacheMisses + 1 /\ cacheHits' = cacheHits
      ]_vars

\* One miss, then one hit on the stored key.
C10_Witness ==
    /\ cacheHits = 1
    /\ cacheMisses = 1
    /\ calls = EmptyBag
    /\ Len(cache) = 1
    /\ returned = Returned("cachedContractCall", cache[1].value.data)

\* The keys of the store, whatever their recency order.
KeySet(items) == {it.key : it \in Range(items)}

\* C11: the store never holds more than CACHE_MAX_SIZE entries, and never
\* two under one key; the write of a fetched entry under a key the store
\* does not hold removes exactly one entry when the store is full and none
\* otherwise, and the write under a key the store holds removes none.
C11_StoreBounded ==
    [][ /\ Len(cache') <= CACHE_MAX_SIZE
        /\ Cardinality(KeySet(cache')) = Len(cache')
        /\ \A call \in BagToSet(calls), data \in Data :
            (returned'.status = "returned" /\ FetchResolved(call, data))
            => LET k == call.cacheKey
                   removed == KeySet(cache) \ KeySet(cache')
               IN  /\ LRU_has(cache', k)
                   /\ {it.key : it \in evicted'} = removed
                   /\ IF LRU_has(cache, k)
                      THEN removed = {} /\ Len(cache') = Len(cache)
                      ELSE IF Len(cache) = CACHE_MAX_SIZE
                      THEN /\ Cardinality(removed) = 1
                           /\ Len(cache') = CACHE_MAX_SIZE
                      ELSE removed = {} /\ Len(cache') = Len(cache) + 1
      ]_vars

\* A write into the full store has just pushed one entry out.
C11_Witness ==
    /\ Cardinality(evicted) = 1
    /\ Len(cache) = CACHE_MAX_SIZE
    /\ returned.status = "returned"

\* x comes before y in the sequence of keys ks.
Before(ks, x, y) ==
    \E i, j \in DOMAIN ks : i < j /\ ks[i] = x /\ ks[j] = y

\* C12: the recency order of the store is the order of the latest use of
\* its entries.  A hit through cachedContractCall and the write of a fetched
\* entry put their key first; no step changes the order of two other keys;
\* an entry pushed out by a write is the last of the order, and the first of
\* the order is not pushed out when the capacity is at least 2.
C12_EvictsLeastRecentlyUsed ==
    [][ /\ \A d \in ValidCalls :
            ( /\ returned'.op = "cachedContractCall"
              /\ cacheHits' # cacheHits
              /\ cachedContractCall(d, Ttl(2), TRUE) )
            => /\ cache'[1].key = Derived[d].key
               /\ KeySet(cache') = KeySet(cache)
        /\ \A call \in BagToSet(calls), data \in Data :
            (returned'.status = "returned" /\ FetchResolved(call, data))
            => /\ cache'[1].key = call.cacheKey
               /\ evicted' # {} => evicted' = {cache[Len(cache)]}
               /\ (CACHE_MAX_SIZE >= 2 /\ cache # <<>>)
                  => cache[1] \notin evicted'
        /\ \A x, y \in KeySet(cache) \cap KeySet(cache') :
            (cache'[1].key \notin {x, y} \/ LRU_keys(cache') = LRU_keys(cache))
            => (Before(LRU_keys(cache), x, y) <=> Before(LRU_keys(cache'), x, y))
      ]_vars

\* A write has pushed out an entry that was stored later than an entry still
\* held: the older entry was hit in between.
C12_Witness ==
    /\ Len(cache) = CACHE_MAX_SIZE
    /\ \E v \in evicted, i \in DOMAIN cache :
          cache[i].value.timestamp < v.value.timestamp

\* The codes a CacheError carries.
CacheErrorCodes ==
    {INVALID_INPUT, SERIALIZATION_ERROR, "CACHE_FULL", "FETCH_ERROR", INVALID_TTL,
     INVALID_CONTRACT_ID}

\* The step threw a CacheError and left the store with its recency order,
\* the counters and the fetches in flight as they were.
RefusedBy(codes) ==
    /\ returned'.status = "threw"
    /\ returned'.val \in codes
    /\ UNCHANGED <<cache, cacheHits, cacheMisses, calls>>

\* C13: a cachedContractCall with an invalid contract id, method, args, TTL
\* or fetch function, or with an over-long key, and an invalidate with an
\* invalid contract id, method or args or an over-long key, throws a
\* CacheError, leaves the store with its recency order and both counters as
\* they were, and invokes no fetch.
C13_InvalidCallsChangeNothing ==
    [][ \/ RefusedBy(CacheErrorCodes)
        \/ /\ returned'.op = "cachedContractCall"
              => \A x \in InvalidCases : ~cachedContractCall(x[1], x[2], x[3])
           /\ returned'.op = "invalidate"
              => \A d \in InvalidCalls : ~invalidate(d)
      ]_vars

\* A call was refused for its fetch function while the store held two
\* entries, a hit was counted and a fetch was in flight.
C13_Witness ==
    /\ returned = Threw("cachedContractCall", INVALID_INPUT)
    /\ Len(cache) = 2
    /\ cacheHits > 0
    /\ calls # EmptyBag

\* C14: with a contract id, a method and args that pass their checks, a TTL
\* that is not finite, below 1 or above 3600 makes cachedContractCall throw
\* INVALID_TTL without invoking fetch, whatever the fetch argument and the
\* length of the key; a call with a TTL of 1 or of 3600 is not refused.
C14_InvalidTtlRejected ==
    [][ /\ \/ RefusedBy({INVALID_TTL})
           \/ returned'.op # "cachedContractCall"
           \/ \A d \in TimedCalls \cup {LongKeyCall}, f \in BOOLEAN,
                 t \in {t \in TtlInputs : ~t.finite \/ t.n < 1 \/ t.n > 3600} :
                    ~cachedContractCall(d, t, f)
        /\ \/ returned'.status # "threw"
           \/ returned'.op # "cachedContractCall"
           \/ \A d \in TimedCalls, t \in {Ttl(1), Ttl(3600)} :
                    ~cachedContractCall(d, t, TRUE)
      ]_vars

\* A call was refused for its TTL while the store held an entry stored under
\* a TTL of 3600 and a call made under a TTL of 1 awaited its fetch.
C14_Witness ==
    /\ returned = Threw("cachedContractCall", INVALID_TTL)
    /\ cache # <<>>
    /\ cache[1].value.ttl = 3600
    /\ \E call \in BagToSet(calls) : call.ttlSeconds = 1

\* C15: a cachedContractCall with an empty or unknown contract id throws
\* INVALID_CONTRACT_ID and invokes no fetch, whether the method, the args,
\* the TTL and the fetch argument are valid or not.
C15_UnknownContractRejected ==
    [][ \/ RefusedBy({INVALID_CONTRACT_ID})
        \/ returned'.op # "cachedContractCall"
        \/ \A d \in BadContractCalls, t \in {Ttl(1), NaN}, f \in BOOLEAN :
                ~cachedContractCall(d, t, f)
      ]_vars

\* A call was refused for its contract id while the store held an entry.
C15_Witness ==
    /\ returned = Threw("cachedContractCall", INVALID_CONTRACT_ID)
    /\ cache # <<>>
    /\ cacheMisses > 0

\* C16: when the fetch of a call rejects, the call throws the error of the
\* fetch, which is not a CacheError, and writes nothing: the store and the
\* counters stay as they were.  The next call for the key, unless another
\* call has stored an entry for it meanwhile, invokes fetch again.
C16_RejectedFetchNotCached ==
    [][ /\ \A call \in BagToSet(calls) :
            (returned'.status = "threw" /\ FetchRejected(call))
            => /\ returned'.op = "cachedContractCall"
               /\ returned'.val \notin CacheErrorCodes
               /\ UNCHANGED <<cache, cacheHits, cacheMisses>>
               /\ BagCardinality(calls') = BagCardinality(calls) - 1
        /\ \A d \in TimedCalls, t \in {1, 2} :
            ( /\ returned.status = "threw"
              /\ returned.val \notin CacheErrorCodes
              /\ ~LRU_has(cache, Derived[d].key)
              /\ cachedContractCall(d, Ttl(t), TRUE) )
            => /\ BagCardinality(calls') = BagCardinality(calls) + 1
               /\ cacheMisses' = cacheMisses + 1
               /\ cacheHits' = cacheHits
      ]_vars

\* The only fetch in flight has rejected: its error was thrown and the store
\* holds nothing.
C16_Witness ==
    /\ returned.status = "threw"
    /\ returned.val \notin CacheErrorCodes
    /\ cache = <<>>
    /\ calls = EmptyBag
    /\ cacheMisses = 1

\* C17: when the fetch of a call resolves to null or undefined, the call
\* throws INVALID_INPUT and writes nothing; no entry of the store ever holds
\* null or undefined as its data.
C17_EmptyResultNotCached ==
    [][ /\ \A i \in DOMAIN cache' : cache'[i].value.data \notin {"null", "undefined"}
        /\ \A call \in BagToSet(calls), data \in {"null", "undefined"} :
            (returned'.status = "threw" /\ FetchResolved(call, data))
            => /\ returned' = Threw("cachedContractCall", INVALID_INPUT)
               /\ UNCHANGED <<cache, cacheHits, cacheMisses>>
               /\ BagCardinality(calls') = BagCardinality(calls) - 1
      ]_vars

\* The only fetch in flight has resolved to null or undefined: the call threw
\* INVALID_INPUT and the store holds nothing.
C17_Witness ==
    /\ returned = Threw("cachedContractCall", INVALID_INPUT)
    /\ cache = <<>>
    /\ calls = EmptyBag
    /\ cacheMisses = 1

\* Same contract id, same method and the same top-level key/value pairs.
SameTriple(x, y) ==
    /\ x.contractId = y.contractId
    /\ x.method = y.method
    /\ Range(x.args.props) = Range(y.args.props)

\* C18: the entry that a call stores is found under the key of every call
\* with the same key/value pairs in another order, and with it in the store
\* such a call is a hit: it returns the data the first call fetched, counts
\* no miss and invokes no fetch.
C18_ArgOrderIgnored ==
    [][ /\ \A call \in BagToSet(calls), d \in KeyCalls :
            ( /\ returned'.status = "returned"
              /\ SameTriple(call, d)
              /\ FetchResolved(call, DataOf(call.contractId, call.method,
                                            call.args)) )
            => /\ LRU_has(cache', Derived[d].key)
               /\ LRU_peek(cache', Derived[d].key).data = returned'.val
        /\ \A d, other \in KeyCalls :
            ( /\ other # d
              /\ SameTriple(other, d)
              /\ \E i \in DOMAIN cache :
                    cache[i].value.data
                        = DataOf(other.contractId, other.method, other.args)
              /\ cachedContractCall(d, Ttl(1), TRUE) )
            => /\ returned' = Returned("cachedContractCall",
                                       DataOf(other.contractId, other.method,
                                              other.args))
               /\ cacheHits' = cacheHits + 1
               /\ UNCHANGED <<cacheMisses, calls>>
      ]_vars

\* The call with { a: 1, b: 2 } fetched and stored; a second call for the key
\* was a hit that returned that data.
C18_Witness ==
    /\ cacheHits = 1
    /\ cacheMisses = 1
    /\ calls = EmptyBag
    /\ returned = Returned("cachedContractCall", "r1")
    /\ Len(cache) = 1
    /\ cache[1].key = Derived[KeyCallList[2]].key

\* C19: calls whose triples differ derive different keys, so a call that is
\* served from the store is served data that was fetched for its own triple.
C19_KeysInjective ==
    [][ \A d \in KeyCalls :
            ( /\ returned'.status = "returned"
              /\ cacheHits' # cacheHits
              /\ cachedContractCall(d, Ttl(1), TRUE) )
            => \E own \in KeyCalls :
                  /\ SameTriple(own, d)
                  /\ returned'.val = DataOf(own.contractId, own.method, own.args)
      ]_vars

\* C20: with a valid contract id, method, TTL and fetch function, a call
\* whose args serialize to exactly 10240 characters is not refused, and a
\* call whose args serialize to 10241 characters throws INVALID_INPUT.
C20_ArgsSizeBoundary ==
    [][ /\ \/ returned'.status # "threw"
           \/ returned'.op # "cachedContractCall"
           \/ ~cachedContractCall(ArgsAtLimit, Ttl(1), TRUE)
        /\ \/ RefusedBy({INVALID_INPUT})
           \/ returned'.op # "cachedContractCall"
           \/ ~cachedContractCall(ArgsOverLimit, Ttl(1), TRUE)
      ]_vars

\* C21: a failure of the store while cachedContractCall reads it (cache.get
\* throws, or cache.del throws on the entry found expired or under another
\* TTL) is treated as a miss: a miss is counted, fetch is invoked and the
\* call waits for it, whatever the store holds.  A failure while it writes
\* is ignored: the store stays as it was.  In both cases the call returns
\* the data its fetch resolved to, and no call throws the error of the store.
C21_StoreFailureSwallowed ==
    [][ /\ returned'.val # "StoreError"
        /\ \A d \in TimedCalls, t \in {1, 2} :
            LET k == Derived[d].key
                stale == LRU_has(cache, k) /\ ~IsHit(LRU_peek(cache, k), t, now)
            IN  \/ ~(storeFault = "get" \/ (storeFault = "del" /\ stale))
                \/ ( /\ returned' = Pending("cachedContractCall", "store-error")
                     /\ cacheMisses' = cacheMisses + 1
                     /\ cacheHits' = cacheHits
                     /\ calls' = calls (+) SetToBag({Suspended(d, k, t)}) )
                \/ ~cachedContractCall(d, Ttl(t), TRUE)
        /\ \A call \in BagToSet(calls), data \in Data :
            \/ ( /\ returned' = Returned("cachedContractCall", data)
                 /\ storeFault = "set" => cache' = cache )
            \/ ~FetchResolved(call, data) ]_vars

\* The store holds an entry that a call under TTL 1 would be served, its
\* read throws, and the call is waiting for its fetch.
C21_Witness ==
    /\ storeFault = "get"
    /\ returned = Pending("cachedContractCall", "store-error")
    /\ \E d \in TimedCalls :
        /\ LRU_has(cache, Derived[d].key)
        /\ IsHit(LRU_peek(cache, Derived[d].key), 1, now)
        /\ BagIn(Suspended(d, Derived[d].key, 1), calls)

\* C22: when the contract read of getSplit, getConfig or calculateSplit
\* resolves to null, the wrapper returns null.
C22_NullResultReturned ==
    [][ \A call \in BagToSet(calls) :
          \/ call.method \notin {getSplit, getConfig, calculateSplit}
          \/ answered' = Answered(WrapperOf(call.method), "null")
          \/ ~WrapperResolved(call, "null") ]_vars

\* The errors a wrapper throws on as they are.
Kept(w, error) ==
    \/ error.class = "CacheError"
    \/ w = "getPolicy" /\ error.code = "NOT_FOUND"
    \/ /\ w \in {"getActivePolicies", "getTotalMonthlyPremium"}
       /\ error.code = "INVALID_ADDRESS"

\* A new Error whose message starts with the prefix of the wrapper and
\* whose cause is the error.
Replaces(thrown, w, error) ==
    /\ thrown.class = "Error"
    /\ thrown.code = "none"
    /\ Head(thrown.message) = Prefix(w)
    /\ thrown.cause = <<error>>

\* C23: a wrapper throws on, as they are, a CacheError, and an error of the
\* contract read whose code is NOT_FOUND (getPolicy) or INVALID_ADDRESS
\* (getActivePolicies, getTotalMonthlyPremium); every other error, the one
\* of its own check of the premium included, it replaces by a new Error
\* whose message starts with its 'Failed to ...' prefix and whose cause is
\* the original.  Arguments that fail the validation of a wrapper are
\* rejected with the store, the counters and the contract reads untouched.
C23_WrapperErrorMapping ==
    [][ /\ \/ BagCardinality(calls') >= BagCardinality(calls)
           \/ /\ \A call \in BagToSet(calls), error \in FetchErrors :
                    LET w == WrapperOf(call.method)
                    IN  \/ ( /\ answered'.op = w
                             /\ answered'.status = "threw"
                             /\ IF Kept(w, error) THEN answered'.error = error
                                ELSE Replaces(answered'.error, w, error) )
                        \/ ~WrapperRejected(call, error)
              /\ \A call \in BagToSet(calls) :
                    \/ answered' = Rejected(WrapperOf(call.method),
                                            CacheError(INVALID_INPUT))
                    \/ ~WrapperResolved(call, "null")
              /\ \A call \in BagToSet(calls), premium \in {"-100", "NaN"} :
                    \/ call.method # getTotalMonthlyPremium
                    \/ /\ answered'.status = "threw"
                       /\ Replaces(answered'.error, "getTotalMonthlyPremium",
                                   PlainError(IF premium = "NaN"
                                              THEN "Invalid premium value returned from contract"
                                              ELSE "Premium cannot be negative"))
                    \/ ~WrapperResolved(call, premium)
        /\ \/ answered'.op \notin Wrappers
           \/ answered'.status # "threw"
           \/ \A x \in WrapperInputs(answered'.op) :
                \/ WrapperInputError(answered'.op, x) = "none"
                \/ answered'.error # PlainError(WrapperInputError(answered'.op, x))
                \/ UNCHANGED <<cache, cacheHits, cacheMisses, calls, returned>>
      ]_vars

\* getSplit threw an Error that wraps the RPC error of its contract read,
\* while the store holds what another wrapper cached.
C23_Witness ==
    /\ answered.op = "getSplit"
    /\ answered.status = "threw"
    /\ answered.error.cause = <<RpcError>>
    /\ Head(answered.error.message) = "Failed to get split configuration: "
    /\ Len(cache) = 1

\* C30: when getTotalMonthlyPremium rejects because its contract read
\* resolved to a premium that is not finite or is negative, the store is
\* not left holding that premium under the key of the call.
C30_RejectedPremiumNotCached ==
    [][ \A call \in BagToSet(calls), premium \in Premiums :
          \/ call.method # getTotalMonthlyPremium
          \/ validatePremium(premium) = "none"
          \/ \A i \in DOMAIN cache' :
                cache'[i].key = call.cacheKey => cache'[i].value.data # premium
          \/ ~WrapperResolved(call, premium) ]_vars

\* The request fails validation: its text is too long, blank, no JSON or
\* no JSON object, or its object names no operation.
Malformed(request) ==
    \/ request.length > MAX_BODY_SIZE
    \/ request.blank
    \/ request.parsed.t # "object"
    \/ /\ ~request.parsed.clearAll
       /\ request.parsed.pattern.t # "str"
       /\ request.parsed.contractId.t # "str"

\* C24: POST /api/cache/invalidate answers 400 to every request that fails
\* validation and to every CacheError that invalidate or invalidatePattern
\* throws, answers 500 only to other errors, and in both cases leaves the
\* store as it was.
C24_ValidationFailuresAnswered400 ==
    [][ \A request \in Requests :
          LET refused == \/ Malformed(request)
                         \/ /\ returned'.status = "threw"
                            /\ returned'.val \in CacheErrorCodes
          IN  \/ /\ refused => (response'.status = 400 /\ cache' = cache)
                 /\ response'.status = 500 => (~refused /\ cache' = cache)
              \/ ~POST(request) ]_vars

\* C25: a request with a contractId and a method and no args removes every
\* entry of that method of that contract and no other entry; with args in
\* addition it removes the entry of that one call only; with a contractId
\* alone it removes the entries of that contract and no entry of another
\* contract.
C25_InvalidatesByScope ==
    [][ \A request \in Requests :
          LET body == request.parsed
              c == body.contractId.s
              m == body.method.s
              kept(drop(_)) ==
                  /\ \A i \in DOMAIN cache' : ~drop(cache'[i])
                  /\ \A i \in DOMAIN cache :
                        ~drop(cache[i]) => cache[i] \in Range(cache')
          IN  \/ Malformed(request)
              \/ body.clearAll
              \/ body.pattern.t = "str"
              \/ response'.status # 200
              \/ body.args.t = "array"
              \/ IF body.method.t = "str" /\ body.args.t = "undefined"
                 THEN kept(LAMBDA it : /\ it.value.contractId = c
                                       /\ it.value.method = m)
                 ELSE IF body.method.t = "str"
                 THEN cache' = LRU_del(cache, Derived[Call(c, m, body.args)].key)
                 ELSE kept(LAMBDA it : it.value.contractId = c)
              \/ ~POST(request) ]_vars

\* The nonce is held in the nonce cache, under any address.
NonceHeld(n) == \E a \in DOMAIN nonceCache : nonceCache[a].nonce = n

\* C26: each nonce set by setNonce is returned by getAndClearNonce at most
\* once and not later than NONCE_TTL_MS after it was set; once a retrieval
\* found it, returned or expired, it is no longer in the nonce cache; and
\* at most one signature verification succeeds with it.
C26_NonceUsedAtMostOnce ==
    \A n \in DOMAIN nonceLog :
        /\ Len(nonceLog[n].returnedAt) <= 1
        /\ \A i \in DOMAIN nonceLog[n].returnedAt :
               nonceLog[n].returnedAt[i] - nonceLog[n].setAt <= NONCE_TTL_MS
        /\ nonceLog[n].found >= 1 => ~NonceHeld(n)
        /\ nonceLog[n].verified <= 1

\* A nonce was verified at the last millisecond of its lifetime, another was
\* found expired, and the latest login was answered 401.
C26_Witness ==
    /\ \E n \in DOMAIN nonceLog :
           /\ nonceLog[n].verified = 1
           /\ nonceLog[n].returnedAt = <<nonceLog[n].setAt + NONCE_TTL_MS>>
    /\ \E n \in DOMAIN nonceLog :
           /\ nonceLog[n].found = 1
           /\ nonceLog[n].returnedAt = <<>>
    /\ response = AuthResponse("POST /api/auth/nonce-login", 401)

\* The call descriptors that pass validation and derive the key under the
\* contract id and method given.
WritersOf(key, contractId, method) ==
    {d \in CallInputs : /\ d.contractId = contractId
                        /\ d.method = method
                        /\ Validated[d] = OK
                        /\ Derived[d].err = OK
                        /\ Derived[d].key = key}

\* The item holds what a validated call with a successful fetch writes.
WellFormed(it) ==
    /\ Len(it.key) <= MAX_KEY_LENGTH
    /\ WritersOf(it.key, it.value.contractId, it.value.method) # {}
    /\ it.value.contractId \in VALID_CONTRACT_IDS
    /\ it.value.ttl \in MIN_TTL..MAX_TTL
    /\ it.value.data \notin Empty

\* C27: every entry of the store has a key of at most 1024 characters that
\* is the key derived from its contract id, its method and the args of a
\* validated call, a whitelisted contract id, a TTL in [1, 3600] and data
\* that is neither null nor undefined; and an entry enters the store only as
\* the entry of an invocation in flight whose fetch resolved to that data.
C27_EntriesWellFormed ==
    [][ \A it \in Range(cache') :
            /\ WellFormed(it)
            /\ it \notin Range(cache)
               => \E call \in BagToSet(calls) :
                      /\ calls' = calls (-) SetToBag({call})
                      /\ it.key = call.cacheKey
                      /\ it.value = NewEntry(call, it.value.data, now)
                      /\ returned' = Returned("cachedContractCall",
                                              it.value.data)
      ]_vars

\* The store holds an entry of each end of the TTL range, after calls were
\* refused and a fetch resolved to null.
C27_Witness ==
    /\ Len(cache) = 2
    /\ {cache[i].value.ttl : i \in DOMAIN cache} = {MIN_TTL, MAX_TTL}
    /\ cacheMisses = MaxCount
    /\ returned.status = "threw"

\* The step is cachedContractCall on inputs that pass validation.
ValidatedCall ==
    \E d \in TimedCalls, ttlSeconds \in {Ttl(1), Ttl(2)} :
        /\ validateCall(d, ttlSeconds, TRUE) = OK
        /\ cachedContractCall(d, ttlSeconds, TRUE)

\* C28: a cachedContractCall that passes validation adds one to exactly one
\* counter: to the hits when it returns stored data, to the misses when it
\* goes on to invoke fetch; the settlement of the fetch, resolved, null or
\* rejected, adds nothing, nor does any other operation; clearCache and
\* resetMetrics set both counters to 0.  So between two resets no counter
\* decreases and hits + misses counts the validated calls past their lookup.
C28_OneCounterPerValidatedCall ==
    [][ IF ValidatedCall
        THEN \/ /\ cacheHits' = cacheHits + 1
                /\ cacheMisses' = cacheMisses
                /\ returned'.status = "returned"
                /\ \E it \in Range(cache) : it.value.data = returned'.val
                /\ calls' = calls
             \/ /\ cacheMisses' = cacheMisses + 1
                /\ cacheHits' = cacheHits
                /\ returned'.status = "pending"
                /\ BagCardinality(calls') = BagCardinality(calls) + 1
        ELSE IF returned'.op \in {"clearCache", "resetMetrics"}
        THEN cacheHits' = 0 /\ cacheMisses' = 0
        ELSE UNCHANGED <<cacheHits, cacheMisses>>
      ]_vars

\* One hit and two misses were counted; the fetch of the second miss
\* resolved to null, so the call threw after it was counted.
C28_Witness ==
    /\ cacheHits = 1
    /\ cacheMisses = 2
    /\ calls = EmptyBag
    /\ returned = Threw("cachedContractCall", INVALID_INPUT)

\* C29: without resetMetrics, the store never holds more entries than the
\* miss counter says, and it is empty whenever hits + misses = 0.
C29_EntriesAtMostMisses ==
    /\ Len(cache) <= cacheMisses
    /\ cacheHits + cacheMisses = 0 => cache = <<>>

=============================================================================
